---- MODULE Spec2Model ----
(***************************************************************************)
(* droidypaste: the paste-server API client (services/api.ts) and the      *)
(* notification sink it calls (services/notifications.ts).                 *)
(*                                                                         *)
(* Strings are TLA+ strings; a URL is normalised character by character.   *)
(* The specifications, all over one list of variables:                     *)
(*   SpecFormat    formatUrl applied to every address of a bounded set     *)
(*   Spec          one API call from its arguments to its settled promise, *)
(*                 against every behaviour of the transport and the timer  *)
(*   SpecConc      two API calls in flight at the same time                *)
(*   SpecSort      sortUploads of the list screen on every short list      *)
(*   SpecPick      pickAndUploadFile and pickAndUploadImage, from the      *)
(*                 picker to the settled promise, the upload included      *)
(*   SpecShare     the share-intent effect of the root layout              *)
(*   SpecSettings  the SettingsProvider: loadSettings and the setters      *)
(*   SpecScreen    handleUpload of the upload screen                       *)
(*   SpecList      the listUploads requests of the list screen             *)
(***************************************************************************)
EXTENDS Integers, Sequences, FiniteSets, TLC

VARIABLES
    fmtIn,      \* formatUrl: the serverUrl argument
    fmtOut,     \* formatUrl: the returned string, NotApplied before the call
    fmtAgain,   \* formatUrl: what it returns for fmtOut, NotApplied before that call
    args,       \* per call: the arguments the caller passed, NoCall if never made
    pc,         \* per call: where the async function is suspended
    reqs,       \* per call: the requests handed to fetch, in order
    signal,     \* per call: controller.signal.aborted
    timer,      \* per call: the setTimeout of the call
    elapsed,    \* per call: 10 seconds have passed since setTimeout was called
    response,   \* per call: the Response fetch resolved with, NoResponse before
    outcome,    \* per call: how the returned promise settled, Pending before
    caught,     \* per call: what the catch block of the function caught
    sinkFailed, \* per call: a clipboard write or a scheduling of the call threw
    notes,      \* per call: notifications scheduled, in order
    clipboard,  \* the system clipboard
    sortArgs,   \* sortUploads: its arguments
    sortOut,    \* sortUploads: the returned list, NotSorted before the call
    pickArgs,   \* pickAndUpload*: the function called and its arguments
    pickPc,     \* pickAndUpload*: where the async function is suspended
    picked,     \* pickAndUpload*: what the picker resolved with, NoPicked before
    pickOutcome, \* pickAndUpload*: how the returned promise settled
    shareIntent, \* RootLayoutNav: the share intent useShareIntent holds, NoIntent if none
    navSettings, \* RootLayoutNav: settings and isLoading of useSettings at the last render
    effectDue,   \* RootLayoutNav: a dependency of the share-intent effect has changed
    shareRuns,   \* RootLayoutNav: the runs of processShareIntent that started an upload
    store,       \* SettingsProvider: AsyncStorage and SecureStore, by key
    settings,    \* SettingsProvider: the settings state
    isLoading,   \* SettingsProvider: the isLoading state
    mounted,     \* SettingsProvider: mountedRef.current and isMounted
    loadRead,    \* loadSettings: what each read of the store returned, NotRead before
    loadPc,      \* loadSettings: where it is
    setCalls,    \* SettingsProvider: the calls of the setters, in order
    written,     \* SettingsProvider: the field values whose write to the store succeeded
    screenText,  \* upload screen: the text input
    screenUrl,   \* upload screen: the URL input
    isUploading, \* upload screen: the isUploading state
    invocations, \* upload screen: the invocations of handleUpload, in order
    uploadsShown, \* list screen: the uploads state, as the set of the file names shown
    listFlags,   \* list screen: the isLoading and isRefreshing states
    listRequests, \* list screen: the calls of loadUploads, in the order they were made
    serverFiles, \* the files the server holds
    deleting     \* list screen: the files handleDelete is waiting for deleteFile on

fmtVars == <<fmtIn, fmtOut, fmtAgain>>
apiVars == <<args, pc, reqs, signal, timer, elapsed, response, outcome, caught, sinkFailed,
             notes,
             clipboard>>
sortVars == <<sortArgs, sortOut>>
pickVars == <<pickArgs, pickPc, picked, pickOutcome>>
shareVars == <<shareIntent, navSettings, effectDue, shareRuns>>
settingsVars == <<store, settings, isLoading, mounted, loadRead, loadPc, setCalls, written>>
screenVars == <<screenText, screenUrl, isUploading, invocations>>
listVars == <<uploadsShown, listFlags, listRequests, serverFiles, deleting>>
appVars == <<shareVars, settingsVars, screenVars, listVars>>
coreVars == <<fmtVars, apiVars, sortVars, pickVars>>
vars == <<fmtIn, fmtOut, fmtAgain, args, pc, reqs, signal, timer, elapsed, response, outcome,
          caught, sinkFailed, notes, clipboard, sortArgs, sortOut, pickArgs, pickPc, picked,
          pickOutcome, shareIntent, navSettings, effectDue, shareRuns, store, settings,
          isLoading, mounted, loadRead, loadPc, setCalls, written, screenText, screenUrl,
          isUploading, invocations, uploadsShown, listFlags, listRequests, serverFiles,
          deleting>>

(***************************************************************************)
(* Bounds                                                                  *)
(***************************************************************************)
MaxUrlParts == 2       \* a server address is at most this many tokens long
MaxUploads == 3        \* the list sortUploads is given is at most this long
MaxShareRuns == 2      \* runs of processShareIntent that start an upload
MaxSetCalls == 2       \* calls of the setters of the SettingsProvider
MaxInvocations == 2    \* invocations of handleUpload
MaxListRequests == 3   \* calls of loadUploads

(***************************************************************************)
(* Strings                                                                 *)
(***************************************************************************)
StartsWith(s, p) == Len(s) >= Len(p) /\ SubSeq(s, 1, Len(p)) = p

DropPrefix(s, n) == IF Len(s) <= n THEN "" ELSE SubSeq(s, n + 1, Len(s))

\* The pieces server addresses are built from: both schemes, near misses of
\* them, and host text.
UrlTokens == {"http://", "https://", "HTTP://", "http:/", "/", "a.io"}

RECURSIVE UrlsOfParts(_)
UrlsOfParts(n) ==
    IF n = 0 THEN {""}
    ELSE LET shorter == UrlsOfParts(n - 1)
         IN  shorter \cup {u \o t : u \in shorter, t \in UrlTokens}

ServerUrls == UrlsOfParts(MaxUrlParts)

(***************************************************************************)
(* formatUrl                                                               *)
(***************************************************************************)
\* formatUrl without the replacement of http:// (an address with either
\* scheme is left alone).
formatUrlKeepsHttp(serverUrl) ==
    IF StartsWith(serverUrl, "http://") \/ StartsWith(serverUrl, "https://")
    THEN serverUrl
    ELSE "https://" \o serverUrl

\* formatUrl putting https:// in front of whatever the replacement returns.
formatUrlAlwaysPrefixes(serverUrl) ==
    LET url == IF StartsWith(serverUrl, "http://")
               THEN "https://" \o DropPrefix(serverUrl, 7)
               ELSE serverUrl
    IN  "https://" \o url

\* formatUrl with the replacement applied anywhere but at the start: only the
\* second statement has an effect.
formatUrlNoReplace(serverUrl) ==
    IF StartsWith(serverUrl, "https://") THEN serverUrl ELSE "https://" \o serverUrl

formatUrl(serverUrl) ==
    LET url == IF StartsWith(serverUrl, "http://")
               THEN "https://" \o DropPrefix(serverUrl, 7)
               ELSE serverUrl
    IN  IF StartsWith(url, "https://") THEN url ELSE "https://" \o url

(***************************************************************************)
(* The API client: values                                                  *)
(***************************************************************************)
Calls == {1, 2}

UploadOps == {"uploadText", "uploadFile", "shortenUrl", "uploadFromRemoteUrl"}
Ops == UploadOps \cup {"listUploads", "deleteFile"}

NoCall == [op |-> "none"]
NoStatus == -1                      \* statusCode is undefined
NoResponse == [status |-> NoStatus, statusText |-> "", bodyRead |-> FALSE, text |-> ""]
Pending == [kind |-> "pending"]
NotApplied == "<not applied>"
NoSort == [field |-> "none"]
NotSorted == <<[file_name |-> "<not sorted>"]>>
NoPick == [fn |-> "none"]
NoIntent == [type |-> "none"]
NoSettings == [serverUrl |-> "", authToken |-> "", isLoading |-> TRUE]
NotRead == "<not read>"
NoStore == [k \in {"serverUrl"} |-> NotRead]
defaultSettings ==
    [serverUrl |-> "", authToken |-> "", deleteToken |-> "", expiry |-> "", isOneShot |-> FALSE]
NoPicked == [canceled |-> FALSE, assets |-> <<>>, none |-> TRUE]

\* Server addresses the calls are made with: empty, without a scheme, with
\* either scheme, and near misses of a scheme.
ApiServerUrls == {"", "a.io", "http://a.io", "https://a.io", "HTTP://a.io", "http:/a.io"}
Tokens == {"", "tok"}
Expiries == {"", "1h"}

Payloads(op) ==
    CASE op = "uploadText"          -> {"hi"}
      [] op = "uploadFile"          -> {"file:///d/f.png", "d/"}
      [] op = "shortenUrl"          -> {"http://x.y"}
      [] op = "uploadFromRemoteUrl" -> {"http://x.y"}
      [] op = "deleteFile"          -> {"f.png"}
      [] OTHER                      -> {""}

\* The argument lists of the six exported functions.  listUploads takes no
\* payload and no options, deleteFile takes its token in place of authToken.
ArgsOf(op) ==
    [op : {op}, payload : Payloads(op), serverUrl : ApiServerUrls, authToken : Tokens,
     expiry : IF op \in UploadOps THEN Expiries ELSE {""},
     oneshot : IF op \in UploadOps THEN BOOLEAN ELSE {FALSE}]

AllArgs == UNION {ArgsOf(op) : op \in Ops}

\* What a server can answer: status and status text (empty over HTTP/2).
Responses ==
    { [status |-> 200, statusText |-> "OK"],
      [status |-> 299, statusText |-> ""],
      [status |-> 300, statusText |-> "Multiple Choices"],
      [status |-> 404, statusText |-> "Not Found"],
      [status |-> 500, statusText |-> "Internal Server Error"],
      [status |-> 500, statusText |-> ""] }

Bodies == {"", "boom", "https://p.io/abc", "[]", "[1,[11]]", "[1,]", "1"}

\* Response.ok taken to mean status 200.
ResponseOkOnly200(r) == r.status = 200

\* Response.ok
ResponseOk(r) == r.status >= 200 /\ r.status <= 299

\* Exceptions.  isError: instanceof Error; isTypeError: instanceof TypeError.
ApiError(message, statusCode) ==
    [isApiError |-> TRUE, isError |-> TRUE, isTypeError |-> FALSE,
     name |-> "ApiError", message |-> message, statusCode |-> statusCode]

Thrown(isError, isTypeError, name, message) ==
    [isApiError |-> FALSE, isError |-> isError, isTypeError |-> isTypeError,
     name |-> name, message |-> message, statusCode |-> NoStatus]

AbortError == Thrown(TRUE, FALSE, "AbortError", "Aborted")

\* The catch block was not entered.
NoCatch == Thrown(FALSE, FALSE, "<nothing caught>", "")

\* What fetch or Response.text can reject with, other than the abort.
TransportErrors ==
    { Thrown(TRUE, TRUE, "TypeError", "Network request failed"),
      Thrown(TRUE, TRUE, "TypeError", "Failed to fetch"),
      Thrown(TRUE, TRUE, "TypeError", "Invalid URL"),
      Thrown(TRUE, FALSE, "Error", "socket hang up"),
      Thrown(FALSE, FALSE, "", "") }

(***************************************************************************)
(* JSON.parse, on the texts built from digits, brackets and commas; every  *)
(* other character makes the text invalid.                                 *)
(***************************************************************************)
CharAt(s, i) == IF i >= 1 /\ i <= Len(s) THEN SubSeq(s, i, i) ELSE ""

Syntax == [ok |-> FALSE]

DigitValue(ch) == CASE ch = "0" -> 0 [] ch = "1" -> 1 [] OTHER -> -1

RECURSIVE ParseDigits(_, _, _)
ParseDigits(s, i, n) ==
    IF DigitValue(CharAt(s, i)) >= 0
    THEN ParseDigits(s, i + 1, 10 * n + DigitValue(CharAt(s, i)))
    ELSE [ok |-> TRUE, val |-> [num |-> n], next |-> i]

RECURSIVE ParseValue(_, _)
RECURSIVE ParseElements(_, _, _)
\* A value starting at position i: a number without a leading zero, or an array.
ParseValue(s, i) ==
    LET ch == CharAt(s, i)
    IN  CASE ch = "[" ->
               IF CharAt(s, i + 1) = "]"
               THEN [ok |-> TRUE, val |-> [arr |-> <<>>], next |-> i + 2]
               ELSE ParseElements(s, i + 1, <<>>)
          [] ch = "0" -> [ok |-> TRUE, val |-> [num |-> 0], next |-> i + 1]
          [] ch = "1" -> ParseDigits(s, i, 0)
          [] OTHER -> Syntax

\* The elements of an array from position i on, up to its closing bracket.
ParseElements(s, i, acc) ==
    LET v == ParseValue(s, i)
    IN  IF ~v.ok THEN Syntax
        ELSE LET ch == CharAt(s, v.next)
             IN  CASE ch = "," -> ParseElements(s, v.next + 1, Append(acc, v.val))
                   [] ch = "]" -> [ok |-> TRUE, val |-> [arr |-> Append(acc, v.val)],
                                   next |-> v.next + 1]
                   [] OTHER -> Syntax

\* JSON.parse(text): ok is FALSE where it throws a SyntaxError.
JsonParse(text) ==
    LET v == ParseValue(text, 1)
    IN  IF v.ok /\ v.next = Len(text) + 1 THEN [ok |-> TRUE, val |-> v.val] ELSE Syntax

(***************************************************************************)
(* The notification sink (services/notifications.ts)                       *)
(***************************************************************************)
\* How one use of the sink goes: both platform calls succeed, the clipboard
\* write throws, or the scheduling of the notification throws.
SinkOutcomes == {"ok", "clipboardThrows", "scheduleThrows"}

\* notifyUploadSuccess(type, url) and notifyUploadError(type, error): the
\* argument each hands to notifyUploadResult.
notifyUploadSuccess(type, url) ==
    [title |-> type \o " uploaded successfully", url |-> url, error |-> FALSE]

notifyUploadError(type, error) ==
    [title |-> type \o " upload failed", url |-> error, error |-> TRUE]

\* notifyUploadResult copying what it is given whether or not it is an error.
notifyUploadResultCopiesErrors(n, sk, st) ==
    LET clipOk  == sk # "clipboardThrows"
        clip    == IF clipOk THEN n.url ELSE st.clipboard
        shown   == [title |-> n.title,
                    body  |-> IF n.error THEN n.url ELSE "URL copied to clipboard",
                    data  |-> n.url]
    IN  IF clipOk /\ sk # "scheduleThrows"
        THEN [clipboard |-> clip, notes |-> Append(st.notes, shown), escaped |-> FALSE,
              failed |-> st.failed]
        ELSE [clipboard |-> clip, notes |-> st.notes, escaped |-> FALSE, failed |-> TRUE]

\* notifyUploadResult without its try block: what the sink throws escapes.
notifyUploadResultNoCatch(n, sk, st) ==
    LET clipOk  == n.error \/ sk # "clipboardThrows"
        clip    == IF ~n.error /\ clipOk THEN n.url ELSE st.clipboard
        shown   == [title |-> n.title,
                    body  |-> IF n.error THEN n.url ELSE "URL copied to clipboard",
                    data  |-> n.url]
    IN  IF clipOk /\ sk # "scheduleThrows"
        THEN [clipboard |-> clip, notes |-> Append(st.notes, shown), escaped |-> FALSE,
              failed |-> st.failed]
        ELSE [clipboard |-> clip, notes |-> st.notes, escaped |-> TRUE, failed |-> TRUE]

\* notifyUploadResult: the clipboard and the scheduled notifications after it
\* ran with sink outcome sk.  Whatever throws is caught and logged, so that
\* nothing escapes to the function that notified.
notifyUploadResult(n, sk, st) ==
    LET clipOk  == n.error \/ sk # "clipboardThrows"
        clip    == IF ~n.error /\ clipOk THEN n.url ELSE st.clipboard
        shown   == [title |-> n.title,
                    body  |-> IF n.error THEN n.url ELSE "URL copied to clipboard",
                    data  |-> n.url]
    IN  IF clipOk /\ sk # "scheduleThrows"
        THEN [clipboard |-> clip, notes |-> Append(st.notes, shown), escaped |-> FALSE,
              failed |-> st.failed]
        ELSE [clipboard |-> clip, notes |-> st.notes, escaped |-> FALSE, failed |-> TRUE]

\* What a failing sink throws.
SinkError == Thrown(TRUE, FALSE, "Error", "Failed to schedule notification")

\* The notifications ns of one handler, dispatched in order, the i-th with
\* sink outcome sks[i]; an exception that escapes ends the handler.
RECURSIVE Dispatch(_, _, _)
Dispatch(ns, sks, st) ==
    IF ns = <<>> \/ st.escaped THEN st
    ELSE Dispatch(Tail(ns), Tail(sks), notifyUploadResult(Head(ns), Head(sks), st))

SinkRuns(ns) == [1..Len(ns) -> SinkOutcomes]

(***************************************************************************)
(* handleApiError                                                          *)
(***************************************************************************)
TimeoutMessage == "Request timed out after 10 seconds"

\* handleApiError without the branch for network failures.
handleApiErrorNoNetwork(error) ==
    CASE error.isApiError -> error
      [] ~error.isApiError /\ error.isError /\ error.name = "AbortError" ->
            ApiError(TimeoutMessage, NoStatus)
      [] ~error.isApiError /\ error.isError /\ error.name # "AbortError" ->
            ApiError(error.message, NoStatus)
      [] OTHER -> ApiError("Unknown network error", NoStatus)

\* handleApiError wrapping an ApiError like any other Error: the status code
\* is lost.
handleApiErrorRewraps(error) ==
    CASE error.isError /\ error.name = "AbortError" -> ApiError(TimeoutMessage, NoStatus)
      [] error.isError /\ error.name # "AbortError"
         /\ error.isTypeError
         /\ error.message \in {"Failed to fetch", "Network request failed"} ->
            ApiError("Unable to connect to server. Please check your internet connection.",
                     NoStatus)
      [] error.isError /\ error.name # "AbortError"
         /\ ~(error.isTypeError
              /\ error.message \in {"Failed to fetch", "Network request failed"}) ->
            ApiError(error.message, NoStatus)
      [] OTHER -> ApiError("Unknown network error", NoStatus)

handleApiError(error) ==
    CASE error.isApiError -> error
      [] ~error.isApiError /\ error.isError /\ error.name = "AbortError" ->
            ApiError(TimeoutMessage, NoStatus)
      [] ~error.isApiError /\ error.isError /\ error.name # "AbortError"
         /\ error.isTypeError
         /\ error.message \in {"Failed to fetch", "Network request failed"} ->
            ApiError("Unable to connect to server. Please check your internet connection.",
                     NoStatus)
      [] ~error.isApiError /\ error.isError /\ error.name # "AbortError"
         /\ ~(error.isTypeError
              /\ error.message \in {"Failed to fetch", "Network request failed"}) ->
            ApiError(error.message, NoStatus)
      [] OTHER -> ApiError("Unknown network error", NoStatus)

\* The notification handleApiError itself dispatches (for an abort only).
handleApiErrorNotes(error) ==
    IF ~error.isApiError /\ error.isError /\ error.name = "AbortError"
    THEN <<notifyUploadError(TimeoutMessage, error.message)>>
    ELSE <<>>

(***************************************************************************)
(* The six operations: what each builds and how each continues             *)
(***************************************************************************)
\* The type the upload functions name themselves by in notifications.
UploadType(op) ==
    CASE op = "uploadText" -> "text"
      [] op = "uploadFile" -> "file"
      [] op = "shortenUrl" -> "URL"
      [] OTHER             -> "remote"

\* The text each function puts before the server's message.
FailPrefix(op) ==
    CASE op = "uploadText"          -> "Upload failed: "
      [] op = "uploadFile"          -> "Upload failed: "
      [] op = "shortenUrl"          -> "URL shortening failed: "
      [] op = "uploadFromRemoteUrl" -> "Remote upload failed: "
      [] op = "listUploads"         -> "List request failed: "
      [] OTHER                      -> "Delete failed: "

\* The message of the error a 404 is turned into by listUploads and deleteFile.
NotFoundMessage(op) ==
    IF op = "listUploads"
    THEN "Make sure expose_list is set to true in your server config"
    ELSE "Make sure delete_token is set in your server config"

ConfigMessage == "Server URL must be configured"

InvalidJsonMessage == "Invalid JSON response from server"

\* The check of the server address left out.
ServerUrlNeverMissing(serverUrl) == FALSE

\* if (!serverUrl)
ServerUrlMissing(serverUrl) == serverUrl = ""

\* uri.split("/").pop() || "file"
RECURSIVE LastSegment(_, _)
LastSegment(uri, i) ==
    IF i = 0 \/ CharAt(uri, i) = "/" THEN DropPrefix(uri, i) ELSE LastSegment(uri, i - 1)

FileNameOf(uri) ==
    LET last == LastSegment(uri, Len(uri)) IN IF last # "" THEN last ELSE "file"

\* One name for the one-shot part in every upload function.
PartNameOneshotEverywhere(op, oneshot) ==
    IF oneshot THEN "oneshot"
    ELSE CASE op \in {"uploadText", "uploadFile"} -> "file"
           [] op = "shortenUrl"                   -> "url"
           [] OTHER                               -> "remote"

\* The name of the single form part.
PartName(op, oneshot) ==
    CASE op \in {"uploadText", "uploadFile"} -> IF oneshot THEN "oneshot" ELSE "file"
      [] op = "shortenUrl"                   -> IF oneshot THEN "oneshot_url" ELSE "url"
      [] OTHER                               -> "remote"

\* The FormData of the upload functions; listUploads and deleteFile send none.
FormOf(a) ==
    CASE a.op = "uploadText" ->
            <<[name |-> PartName(a.op, a.oneshot),
               value |-> [uri |-> "text.txt", type |-> "text/plain", name |-> "text.txt",
                          string |-> a.payload]]>>
      [] a.op = "uploadFile" ->
            <<[name |-> PartName(a.op, a.oneshot),
               value |-> [uri |-> a.payload, type |-> "application/octet-stream",
                          name |-> FileNameOf(a.payload)]]>>
      [] a.op \in {"shortenUrl", "uploadFromRemoteUrl"} ->
            <<[name |-> PartName(a.op, a.oneshot), value |-> [string |-> a.payload]]>>
      [] OTHER -> <<>>

\* The Authorization header set without the test of the token.
HeadersOfAlwaysAuth(a) ==
    {<<"Accept", "*/*">>, <<"Authorization", a.authToken>>}
    \cup (IF a.op = "uploadText" THEN {<<"Accept-Encoding", "identity">>} ELSE {})
    \cup (IF a.op \in UploadOps /\ a.expiry # "" THEN {<<"expire", a.expiry>>} ELSE {})

\* deleteFile building its headers the way the other functions do.
HeadersOfTokenOptional(a) ==
    {<<"Accept", "*/*">>}
    \cup (IF a.op = "uploadText" THEN {<<"Accept-Encoding", "identity">>} ELSE {})
    \cup (IF a.authToken # "" THEN {<<"Authorization", a.authToken>>} ELSE {})
    \cup (IF a.op \in UploadOps /\ a.expiry # "" THEN {<<"expire", a.expiry>>} ELSE {})

\* The headers, as the set of (name, value) pairs.
HeadersOf(a) ==
    {<<"Accept", "*/*">>}
    \cup (IF a.op = "uploadText" THEN {<<"Accept-Encoding", "identity">>} ELSE {})
    \cup (IF a.op = "deleteFile" \/ a.authToken # ""
          THEN {<<"Authorization", a.authToken>>} ELSE {})
    \cup (IF a.op \in UploadOps /\ a.expiry # "" THEN {<<"expire", a.expiry>>} ELSE {})

MethodOf(op) ==
    CASE op = "listUploads" -> "GET" [] op = "deleteFile" -> "DELETE" [] OTHER -> "POST"

\* finalUrl
FinalUrl(a) ==
    CASE a.op = "listUploads" -> formatUrl(a.serverUrl) \o "/list"
      [] a.op = "deleteFile"  -> formatUrl(a.serverUrl) \o "/" \o a.payload
      [] OTHER                -> formatUrl(a.serverUrl)

\* fetch called without the controller's signal.
RequestOfNoSignal(a) ==
    [method |-> MethodOf(a.op), url |-> FinalUrl(a), headers |-> HeadersOf(a),
     body |-> FormOf(a), signal |-> FALSE]

\* The argument of fetch; signal says the controller's signal is passed.
RequestOf(a) ==
    [method |-> MethodOf(a.op), url |-> FinalUrl(a), headers |-> HeadersOf(a),
     body |-> FormOf(a), signal |-> TRUE]

Return(value, ns) == [throws |-> FALSE, value |-> value, ns |-> ns]
Throw(error, ns) == [throws |-> TRUE, error |-> error, ns |-> ns]

\* The status text never used.
TextOnly(r, responseText) == responseText

\* responseText || response.statusText
TextOrStatus(r, responseText) == IF responseText # "" THEN responseText ELSE r.statusText

\* The error of a non-2xx response without the status of the response.
ServerErrorNoStatus(op, r, responseText) ==
    ApiError(FailPrefix(op) \o TextOrStatus(r, responseText), NoStatus)

\* The error of a non-2xx response.
ServerError(op, r, responseText) ==
    ApiError(FailPrefix(op) \o TextOrStatus(r, responseText), r.status)

\* No branch for the 404.
SettlesOnHeadersOkOnly(op, r) == op = "deleteFile" /\ ResponseOk(r)

\* listUploads and deleteFile: does this response end the try block before
\* any body is read?
SettlesOnHeaders(op, r) ==
    CASE op = "listUploads" -> ~ResponseOk(r) /\ r.status = 404
      [] op = "deleteFile"  -> ResponseOk(r) \/ r.status = 404
      [] OTHER              -> FALSE

\* The try block from the resolution of fetch on, where it reads no body.
AfterHeaders(op, r) ==
    IF ResponseOk(r) THEN Return([void |-> TRUE], <<>>)
    ELSE Throw(ApiError(NotFoundMessage(op), 404), <<>>)

\* JSON.parse outside a try block of its own: its SyntaxError is thrown on.
ParseListUncaught(responseText) ==
    LET parsed == JsonParse(responseText)
    IN  IF parsed.ok THEN Return([json |-> parsed.val], <<>>)
        ELSE Throw(Thrown(TRUE, FALSE, "SyntaxError", "JSON Parse error: Unexpected token"),
                   <<>>)

\* listUploads on a 2xx response: the parsed body, or the error that replaces
\* the SyntaxError of JSON.parse.
ParseList(responseText) ==
    LET parsed == JsonParse(responseText)
    IN  IF parsed.ok THEN Return([json |-> parsed.val], <<>>)
        ELSE Throw(ApiError(InvalidJsonMessage, NoStatus), <<>>)

\* The try block from the resolution of response.text() on.
AfterText(op, r, responseText) ==
    CASE op \in UploadOps /\ ResponseOk(r) ->
            Return([text |-> responseText],
                   <<notifyUploadSuccess(UploadType(op), responseText)>>)
      [] op \in UploadOps /\ ~ResponseOk(r) ->
            LET error == ServerError(op, r, responseText)
            IN  Throw(error, <<notifyUploadError(UploadType(op), error.message)>>)
      [] op = "listUploads" /\ ResponseOk(r) -> ParseList(responseText)
      [] OTHER -> Throw(ServerError(op, r, responseText), <<>>)

\* The catch block: what the call rejects with and what it notifies.
Catch(op, error) ==
    LET apiError == handleApiError(error)
    IN  [throws |-> TRUE, error |-> apiError, caught |-> error,
         ns |-> handleApiErrorNotes(error)
                \o (IF op \in UploadOps
                    THEN <<notifyUploadError(UploadType(op), apiError.message)>>
                    ELSE <<>>)]

\* A try block's result taken through the catch block.
ThroughCatch(op, res) ==
    IF res.throws
    THEN LET handled == Catch(op, res.error)
         IN  [handled EXCEPT !.ns = res.ns \o handled.ns]
    ELSE res

Resolved(value) == [kind |-> "resolved", value |-> value]
Rejected(error) == [kind |-> "rejected", error |-> error]

(***************************************************************************)
(* Actions of one call c                                                   *)
(***************************************************************************)
\* The promise of call c settles: the handler's notifications go through the
\* sink, each with some outcome of the sink, and the caller gets the result.
Settle(c, res) ==
    \E sks \in SinkRuns(res.ns) :
        LET st == Dispatch(res.ns, sks,
                           [clipboard |-> clipboard, notes |-> notes[c], escaped |-> FALSE,
                            failed |-> FALSE])
        IN  /\ outcome' = [outcome EXCEPT ![c] =
                              IF st.escaped THEN Rejected(SinkError)
                              ELSE IF res.throws THEN Rejected(res.error)
                              ELSE Resolved(res.value)]
            /\ caught' = [caught EXCEPT ![c] =
                             IF "caught" \in DOMAIN res THEN res.caught ELSE NoCatch]
            /\ pc' = [pc EXCEPT ![c] = "done"]
            /\ sinkFailed' = [sinkFailed EXCEPT ![c] = st.failed]
            /\ notes' = [notes EXCEPT ![c] = st.notes]
            /\ clipboard' = st.clipboard

\* The function is called with an empty server address: it throws before the
\* try block; the upload functions notify first.
CallUnconfigured(c) ==
    /\ pc[c] = "idle"
    /\ args[c] # NoCall
    /\ ServerUrlMissing(args[c].serverUrl)
    /\ LET error == ApiError(ConfigMessage, NoStatus)
       IN  Settle(c, Throw(error,
                           IF args[c].op \in UploadOps
                           THEN <<notifyUploadError(UploadType(args[c].op), error.message)>>
                           ELSE <<>>))
    /\ UNCHANGED <<args, reqs, signal, timer, elapsed, response, fmtVars, sortVars, pickVars,
                   appVars>>

\* The function is called with a server address: it builds the request, arms
\* the 10 second timer, hands the request to fetch and waits.
CallSend(c) ==
    /\ pc[c] = "idle"
    /\ args[c] # NoCall
    /\ ~ServerUrlMissing(args[c].serverUrl)
    /\ timer' = [timer EXCEPT ![c] = "armed"]
    /\ reqs' = [reqs EXCEPT ![c] = Append(@, RequestOf(args[c]))]
    /\ pc' = [pc EXCEPT ![c] = "fetching"]
    /\ UNCHANGED <<args, signal, elapsed, response, outcome, caught, sinkFailed, notes,
                   clipboard, fmtVars,
                   sortVars, pickVars, appVars>>

\* fetch resolves with a response: clearTimeout, then the function either
\* waits for the body or settles at once.
FetchResolves(c, r) ==
    /\ pc[c] = "fetching"
    /\ ~(reqs[c][Len(reqs[c])].signal /\ signal[c])
    /\ timer' = [timer EXCEPT ![c] = IF @ = "armed" THEN "cleared" ELSE @]
    /\ response' = [response EXCEPT ![c] =
                       [status |-> r.status, statusText |-> r.statusText,
                        bodyRead |-> FALSE, text |-> ""]]
    /\ IF SettlesOnHeaders(args[c].op, r)
       THEN Settle(c, ThroughCatch(args[c].op, AfterHeaders(args[c].op, r)))
       ELSE /\ pc' = [pc EXCEPT ![c] = "reading"]
            /\ UNCHANGED <<outcome, caught, sinkFailed, notes, clipboard>>
    /\ UNCHANGED <<args, reqs, signal, elapsed, fmtVars, sortVars, pickVars, appVars>>

\* A catch block that sends the request once more before it gives up.
FetchRejectsRetries(c, error) ==
    /\ pc[c] = "fetching"
    /\ ~(reqs[c][Len(reqs[c])].signal /\ signal[c])
    /\ IF Len(reqs[c]) < 2
       THEN /\ reqs' = [reqs EXCEPT ![c] = Append(@, RequestOf(args[c]))]
            /\ UNCHANGED <<pc, outcome, caught, sinkFailed, notes, clipboard>>
       ELSE /\ Settle(c, Catch(args[c].op, error))
            /\ UNCHANGED reqs
    /\ UNCHANGED <<args, signal, timer, elapsed, response, fmtVars, sortVars, pickVars, appVars>>

\* fetch rejects with a failure of the transport: straight to the catch block.
FetchRejects(c, error) ==
    /\ pc[c] = "fetching"
    /\ ~(reqs[c][Len(reqs[c])].signal /\ signal[c])
    /\ Settle(c, Catch(args[c].op, error))
    /\ UNCHANGED <<args, reqs, signal, timer, elapsed, response, fmtVars, sortVars, pickVars,
                   appVars>>

\* One AbortController for the module instead of one for each call: the timer
\* of a call aborts every request.
DeadlineSharedController(c) ==
    /\ timer[c] # "none"
    /\ ~elapsed[c]
    /\ elapsed' = [elapsed EXCEPT ![c] = TRUE]
    /\ IF timer[c] = "armed"
       THEN /\ timer' = [timer EXCEPT ![c] = "fired"]
            /\ signal' = [d \in Calls |-> TRUE]
       ELSE UNCHANGED <<timer, signal>>
    /\ UNCHANGED <<args, pc, reqs, response, outcome, caught, sinkFailed, notes, clipboard,
                   fmtVars,
                   sortVars, pickVars, appVars>>

\* 10 seconds have passed since setTimeout: a timer still armed runs its
\* callback, controller.abort().
Deadline(c) ==
    /\ timer[c] # "none"
    /\ ~elapsed[c]
    /\ elapsed' = [elapsed EXCEPT ![c] = TRUE]
    /\ IF timer[c] = "armed"
       THEN /\ timer' = [timer EXCEPT ![c] = "fired"]
            /\ signal' = [signal EXCEPT ![c] = TRUE]
       ELSE UNCHANGED <<timer, signal>>
    /\ UNCHANGED <<args, pc, reqs, response, outcome, caught, sinkFailed, notes, clipboard,
                   fmtVars,
                   sortVars, pickVars, appVars>>

\* fetch rejects with the AbortError of an aborted signal.
FetchAborts(c) ==
    /\ pc[c] = "fetching"
    /\ reqs[c][Len(reqs[c])].signal /\ signal[c]
    /\ Settle(c, Catch(args[c].op, AbortError))
    /\ UNCHANGED <<args, reqs, signal, timer, elapsed, response, fmtVars, sortVars, pickVars,
                   appVars>>

\* response.text() resolves with the body: the rest of the try block runs.
TextResolves(c, body) ==
    /\ pc[c] = "reading"
    /\ response' = [response EXCEPT ![c].bodyRead = TRUE, ![c].text = body]
    /\ Settle(c, ThroughCatch(args[c].op, AfterText(args[c].op, response[c], body)))
    /\ UNCHANGED <<args, reqs, signal, timer, elapsed, fmtVars, sortVars, pickVars, appVars>>

\* response.text() rejects: the connection failed while the body was read.
TextRejects(c, error) ==
    /\ pc[c] = "reading"
    /\ Settle(c, Catch(args[c].op, error))
    /\ UNCHANGED <<args, reqs, signal, timer, elapsed, response, fmtVars, sortVars, pickVars,
                   appVars>>

(***************************************************************************)
(* Spec: one call against every transport                                  *)
(***************************************************************************)
FormatIdle == fmtIn = "" /\ fmtOut = NotApplied /\ fmtAgain = NotApplied

ApiIdle(a) ==
    /\ args = a
    /\ pc = [c \in Calls |-> "idle"]
    /\ reqs = [c \in Calls |-> <<>>]
    /\ signal = [c \in Calls |-> FALSE]
    /\ timer = [c \in Calls |-> "none"]
    /\ elapsed = [c \in Calls |-> FALSE]
    /\ response = [c \in Calls |-> NoResponse]
    /\ outcome = [c \in Calls |-> Pending]
    /\ caught = [c \in Calls |-> NoCatch]
    /\ sinkFailed = [c \in Calls |-> FALSE]
    /\ notes = [c \in Calls |-> <<>>]
    /\ clipboard = ""

SortIdle == sortArgs = NoSort /\ sortOut = NotSorted

PickIdle == pickArgs = NoPick /\ pickPc = "idle" /\ picked = NoPicked /\ pickOutcome = Pending

ShareIdle ==
    /\ shareIntent = NoIntent
    /\ navSettings = NoSettings
    /\ effectDue = FALSE
    /\ shareRuns = <<>>

SettingsIdle ==
    /\ store = NoStore
    /\ settings = defaultSettings
    /\ isLoading = TRUE
    /\ mounted = TRUE
    /\ loadRead = NoStore
    /\ loadPc = "idle"
    /\ setCalls = <<>>
    /\ written = {}

ScreenIdle == screenText = "" /\ screenUrl = "" /\ isUploading = FALSE /\ invocations = <<>>

ListIdle ==
    /\ uploadsShown = {}
    /\ listFlags = [isLoading |-> TRUE, isRefreshing |-> FALSE]
    /\ listRequests = <<>>
    /\ serverFiles = {}
    /\ deleting = {}

AppIdle == ShareIdle /\ SettingsIdle /\ ScreenIdle /\ ListIdle

\* The caller makes call 1, with any arguments, and no other.
Init ==
    /\ AppIdle
    /\ FormatIdle
    /\ SortIdle
    /\ PickIdle
    /\ \E a \in AllArgs : ApiIdle([c \in Calls |-> IF c = 1 THEN a ELSE NoCall])

Next ==
    \/ \E c \in Calls : CallUnconfigured(c)
    \/ \E c \in Calls : CallSend(c)
    \/ \E c \in Calls, r \in Responses : FetchResolves(c, r)
    \/ \E c \in Calls, e \in TransportErrors : FetchRejects(c, e)
    \/ \E c \in Calls : Deadline(c)
    \/ \E c \in Calls : FetchAborts(c)
    \/ \E c \in Calls, b \in Bodies : TextResolves(c, b)
    \/ \E c \in Calls, e \in TransportErrors : TextRejects(c, e)

Spec == Init /\ [][Next]_vars

(***************************************************************************)
(* SpecConc: two calls in flight at the same time                          *)
(***************************************************************************)
\* The calls made together: an upload, the listing, a deletion, and a call
\* made before any server address was configured.
ConcArgs ==
    { [op |-> "shortenUrl", payload |-> "http://x.y", serverUrl |-> "", authToken |-> "",
       expiry |-> "", oneshot |-> FALSE] } \cup
    { [op |-> "uploadText", payload |-> "hi", serverUrl |-> "a.io", authToken |-> "tok",
       expiry |-> "", oneshot |-> FALSE],
      [op |-> "listUploads", payload |-> "", serverUrl |-> "http://a.io", authToken |-> "",
       expiry |-> "", oneshot |-> FALSE],
      [op |-> "deleteFile", payload |-> "f.png", serverUrl |-> "https://a.io",
       authToken |-> "tok", expiry |-> "", oneshot |-> FALSE] }

\* The caller makes every call of Calls, none waiting for another.
InitConc ==
    /\ AppIdle
    /\ FormatIdle
    /\ SortIdle
    /\ PickIdle
    /\ \E a \in [Calls -> ConcArgs] : ApiIdle(a)

SpecConc == InitConc /\ [][Next]_vars

(***************************************************************************)
(* SpecFormat: formatUrl on every address                                  *)
(***************************************************************************)
InitFormat ==
    /\ AppIdle
    /\ fmtIn \in ServerUrls
    /\ fmtOut = NotApplied
    /\ fmtAgain = NotApplied
    /\ ApiIdle([c \in Calls |-> NoCall])
    /\ SortIdle
    /\ PickIdle

\* formatUrl(serverUrl)
ApplyFormatUrl ==
    /\ fmtOut = NotApplied
    /\ fmtOut' = formatUrl(fmtIn)
    /\ UNCHANGED <<fmtIn, fmtAgain, apiVars, sortVars, pickVars, appVars>>

\* formatUrl of an address formatUrl returned
ApplyFormatUrlAgain ==
    /\ fmtOut # NotApplied
    /\ fmtAgain = NotApplied
    /\ fmtAgain' = formatUrl(fmtOut)
    /\ UNCHANGED <<fmtIn, fmtOut, apiVars, sortVars, pickVars, appVars>>

NextFormat == ApplyFormatUrl \/ ApplyFormatUrlAgain

SpecFormat == InitFormat /\ [][NextFormat]_vars

(***************************************************************************)
(* sortUploads of the list screen (app/(tabs)/index.tsx)                   *)
(***************************************************************************)
Null == "<null>"                    \* expires_at_utc: null

\* The Upload records of the lists: two names, two sizes, no expiration or
\* one of two.
UploadRecords ==
    [file_name : {"a.txt", "b.txt"}, file_size : {10, 20},
     expires_at_utc : {Null, "1970-01-01T00:00:01Z", "1970-01-02T00:00:00Z"}]

RECURSIVE ListsUpTo(_)
ListsUpTo(n) ==
    IF n = 0 THEN {<<>>}
    ELSE LET shorter == ListsUpTo(n - 1)
         IN  shorter \cup {Append(l, u) : l \in shorter, u \in UploadRecords}

SortFields == {"name", "size", "expiration"}
SortDirections == {"asc", "desc"}

\* new Date(text).getTime()
GetTime(text) ==
    CASE text = "1970-01-01T00:00:01Z" -> 1000
      [] text = "1970-01-02T00:00:00Z" -> 86400000
      [] OTHER -> 0

\* a.localeCompare(b) on the file names of the records
LocaleCompare(a, b) ==
    LET rank(n) == IF n = "a.txt" THEN 1 ELSE 2
    IN  IF rank(a) < rank(b) THEN -1 ELSE IF rank(a) > rank(b) THEN 1 ELSE 0

\* The comparison of the switch statement.
Comparison(a, b, field) ==
    CASE field = "name" -> LocaleCompare(a.file_name, b.file_name)
      [] field = "size" -> a.file_size - b.file_size
      [] field = "expiration" ->
            IF a.expires_at_utc = Null /\ b.expires_at_utc = Null THEN 0
            ELSE IF a.expires_at_utc = Null THEN 1
            ELSE IF b.expires_at_utc = Null THEN -1
            ELSE GetTime(a.expires_at_utc) - GetTime(b.expires_at_utc)
      [] OTHER -> 0

\* The function handed to Array.prototype.sort.
Comparator(a, b, field, direction) ==
    IF direction = "asc" THEN Comparison(a, b, field) ELSE 0 - Comparison(a, b, field)

\* x put into the sorted list after everything that does not come after it.
RECURSIVE InsertSorted(_, _, _, _)
InsertSorted(x, sorted, field, direction) ==
    IF sorted = <<>> THEN <<x>>
    ELSE IF Comparator(Head(sorted), x, field, direction) <= 0
         THEN <<Head(sorted)>> \o InsertSorted(x, Tail(sorted), field, direction)
         ELSE <<x>> \o sorted

\* Array.prototype.sort, which is stable, on the first n elements of a copy.
RECURSIVE SortPrefix(_, _, _, _)
SortPrefix(uploads, n, field, direction) ==
    IF n = 0 THEN <<>>
    ELSE InsertSorted(uploads[n], SortPrefix(uploads, n - 1, field, direction),
                      field, direction)

sortUploads(uploads, field, direction) ==
    SortPrefix(uploads, Len(uploads), field, direction)

InitSort ==
    /\ AppIdle
    /\ FormatIdle
    /\ ApiIdle([c \in Calls |-> NoCall])
    /\ PickIdle
    /\ sortArgs \in [uploads : ListsUpTo(MaxUploads), field : SortFields,
                     direction : SortDirections]
    /\ sortOut = NotSorted

\* sortUploads(uploads, field, direction)
ApplySortUploads ==
    /\ sortOut = NotSorted
    /\ sortOut' = sortUploads(sortArgs.uploads, sortArgs.field, sortArgs.direction)
    /\ UNCHANGED <<sortArgs, fmtVars, apiVars, pickVars, appVars>>

NextSort == ApplySortUploads

SpecSort == InitSort /\ [][NextSort]_vars

(***************************************************************************)
(* SpecPick: pickAndUploadFile and pickAndUploadImage                      *)
(***************************************************************************)
PickFns == {"pickAndUploadFile", "pickAndUploadImage"}

\* pickAndUploadFile(serverUrl, authToken, options) and pickAndUploadImage
\* with the same parameters.
PickArgs ==
    [fn : PickFns, serverUrl : {"", "a.io"}, authToken : Tokens, expiry : Expiries,
     oneshot : BOOLEAN]

\* What either picker resolves with: cancelled (assets: null), not cancelled
\* with no asset, not cancelled with one asset.
PickerResults ==
    {[canceled |-> TRUE, assets |-> <<>>], [canceled |-> FALSE, assets |-> <<>>]}
        \cup {[canceled |-> FALSE, assets |-> <<uri>>] : uri \in Payloads("uploadFile")}

\* What the picker or the permission request can reject with.
PickerErrors == {Thrown(TRUE, FALSE, "Error", "Picker unavailable")}

PermissionError == Thrown(TRUE, FALSE, "Error", "Permission to access media library is required")

\* uploadFile(result.assets[0].uri, serverUrl, authToken, options)
UploadFileCall(uri, a) ==
    [op |-> "uploadFile", payload |-> uri, serverUrl |-> a.serverUrl,
     authToken |-> a.authToken, expiry |-> a.expiry, oneshot |-> a.oneshot]

InitPick ==
    /\ AppIdle
    /\ FormatIdle
    /\ SortIdle
    /\ ApiIdle([c \in Calls |-> NoCall])
    /\ pickArgs \in PickArgs
    /\ pickPc = "idle"
    /\ picked = NoPicked
    /\ pickOutcome = Pending

\* The function is called: the image function asks for the media library
\* permission first, the file function opens the picker.
PickCall ==
    /\ pickArgs # NoPick
    /\ pickPc = "idle"
    /\ pickPc' = IF pickArgs.fn = "pickAndUploadImage" THEN "permission" ELSE "picking"
    /\ UNCHANGED <<pickArgs, picked, pickOutcome, fmtVars, apiVars, sortVars, appVars>>

\* requestMediaLibraryPermissionsAsync resolves.
PermissionResolves(granted) ==
    /\ pickPc = "permission"
    /\ IF granted
       THEN pickPc' = "picking" /\ UNCHANGED pickOutcome
       ELSE pickPc' = "done" /\ pickOutcome' = Rejected(PermissionError)
    /\ UNCHANGED <<pickArgs, picked, fmtVars, apiVars, sortVars, appVars>>

\* requestMediaLibraryPermissionsAsync rejects: the catch block rethrows.
PermissionRejects(e) ==
    /\ pickPc = "permission"
    /\ pickPc' = "done"
    /\ pickOutcome' = Rejected(e)
    /\ UNCHANGED <<pickArgs, picked, fmtVars, apiVars, sortVars, appVars>>

\* Cancelling rejects the promise.
PickerResolvesCancelRejects(result) ==
    /\ pickPc = "picking"
    /\ picked' = result
    /\ IF result.canceled
       THEN /\ pickPc' = "done"
            /\ pickOutcome' = Rejected(Thrown(TRUE, FALSE, "Error", "Cancelled"))
            /\ UNCHANGED args
       ELSE IF result.assets # <<>>
       THEN /\ pickPc' = "uploading"
            /\ args' = [args EXCEPT ![1] = UploadFileCall(result.assets[1], pickArgs)]
            /\ UNCHANGED pickOutcome
       ELSE /\ pickPc' = "done"
            /\ pickOutcome' = Resolved(Null)
            /\ UNCHANGED args
    /\ UNCHANGED <<pickArgs, pc, reqs, signal, timer, elapsed, response, outcome, caught,
                   sinkFailed, notes, clipboard, fmtVars, sortVars, appVars>>

\* getDocumentAsync or launchImageLibraryAsync resolves: cancelled or without
\* an asset the function returns null, with an asset it calls uploadFile (as
\* call 1) and waits for it.
PickerResolves(result) ==
    /\ pickPc = "picking"
    /\ picked' = result
    /\ IF result.canceled
       THEN /\ pickPc' = "done"
            /\ pickOutcome' = Resolved(Null)
            /\ UNCHANGED args
       ELSE IF result.assets # <<>>
       THEN /\ pickPc' = "uploading"
            /\ args' = [args EXCEPT ![1] = UploadFileCall(result.assets[1], pickArgs)]
            /\ UNCHANGED pickOutcome
       ELSE /\ pickPc' = "done"
            /\ pickOutcome' = Resolved(Null)
            /\ UNCHANGED args
    /\ UNCHANGED <<pickArgs, pc, reqs, signal, timer, elapsed, response, outcome, caught,
                   sinkFailed, notes, clipboard, fmtVars, sortVars, appVars>>

\* The picker rejects: the catch block rethrows.
PickerRejects(e) ==
    /\ pickPc = "picking"
    /\ pickPc' = "done"
    /\ pickOutcome' = Rejected(e)
    /\ UNCHANGED <<pickArgs, picked, fmtVars, apiVars, sortVars, appVars>>

\* uploadFile has settled: its URL is returned, its exception rethrown.
UploadFileSettles ==
    /\ pickPc = "uploading"
    /\ pc[1] = "done"
    /\ pickPc' = "done"
    /\ pickOutcome' = outcome[1]
    /\ UNCHANGED <<pickArgs, picked, fmtVars, apiVars, sortVars, appVars>>

NextPick ==
    \/ PickCall
    \/ \E granted \in BOOLEAN : PermissionResolves(granted)
    \/ \E e \in PickerErrors : PermissionRejects(e)
    \/ \E result \in PickerResults : PickerResolves(result)
    \/ \E e \in PickerErrors : PickerRejects(e)
    \/ UploadFileSettles
    \/ Next

SpecPick == InitPick /\ [][NextPick]_vars

(***************************************************************************)
(* SpecShare: the share-intent effect of RootLayoutNav                     *)
(***************************************************************************)
\* The share intents received: one or two files, a text, a web URL.
ShareIntents ==
    { [type |-> "file", files |-> <<"/c/a.png">>, text |-> "", webUrl |-> ""],
      [type |-> "file", files |-> <<"/c/a.png", "/c/b.png">>, text |-> "", webUrl |-> ""],
      [type |-> "text", files |-> <<>>, text |-> "hi", webUrl |-> ""],
      [type |-> "weburl", files |-> <<>>, text |-> "", webUrl |-> "http://x.y"] }

\* What loadSettings leaves in the settings, and what the setters put there.
NavSettings == [serverUrl : {"", "a.io"}, authToken : Tokens, isLoading : {FALSE}]

\* The branch of processShareIntent taken for an intent.
ShareBranch(intent) ==
    IF Len(intent.files) > 0 THEN "files"
    ELSE IF intent.type = "text" /\ intent.text # "" THEN "text"
    ELSE IF intent.webUrl # "" THEN "weburl"
    ELSE "none"

\* The upload a run makes for item i of its intent.
ShareUpload(intent, i, st) ==
    CASE ShareBranch(intent) = "files" ->
            [op |-> "uploadFile", payload |-> intent.files[i], serverUrl |-> st.serverUrl,
             authToken |-> st.authToken]
      [] ShareBranch(intent) = "text" ->
            [op |-> "uploadText", payload |-> intent.text, serverUrl |-> st.serverUrl,
             authToken |-> st.authToken]
      [] OTHER ->
            [op |-> "shortenUrl", payload |-> intent.webUrl, serverUrl |-> st.serverUrl,
             authToken |-> st.authToken]

\* The number of uploads an intent needs.
ShareItems(intent) == IF ShareBranch(intent) = "files" THEN Len(intent.files) ELSE 1

\* A run of processShareIntent that got past its checks: the intent and
\* settings of its closure, the item it is at, and what it has done so far.
StartedRun(intent, st) ==
    [pc |-> "uploading", intent |-> intent, settings |-> st, i |-> 1,
     log |-> <<[ev |-> "start", i |-> 1, call |-> ShareUpload(intent, 1, st)]>>,
     reset |-> FALSE]

InitShare ==
    /\ FormatIdle
    /\ SortIdle
    /\ PickIdle
    /\ ApiIdle([c \in Calls |-> NoCall])
    /\ SettingsIdle
    /\ ScreenIdle
    /\ ListIdle
    /\ shareIntent = NoIntent
    /\ navSettings = NoSettings
    /\ effectDue = TRUE               \* the effect runs after the first render
    /\ shareRuns = <<>>

\* The app is opened through a share intent, the only one it receives.
ReceiveIntent(intent) ==
    /\ shareIntent = NoIntent
    /\ shareRuns = <<>>
    /\ shareIntent' = intent
    /\ effectDue' = TRUE
    /\ UNCHANGED <<navSettings, shareRuns, coreVars, settingsVars, screenVars, listVars>>

\* loadSettings of the SettingsProvider has finished.
SettingsLoaded(st) ==
    /\ navSettings.isLoading
    /\ navSettings' = st
    /\ effectDue' = TRUE
    /\ UNCHANGED <<shareIntent, shareRuns, coreVars, settingsVars, screenVars, listVars>>

\* The user saves another server address or auth token on the settings screen.
SettingsChanged(st) ==
    /\ ~navSettings.isLoading
    /\ st # navSettings
    /\ navSettings' = st
    /\ effectDue' = TRUE
    /\ UNCHANGED <<shareIntent, shareRuns, coreVars, settingsVars, screenVars, listVars>>

\* The effect runs processShareIntent, which returns while the settings are
\* loading, without a server address and without a share intent; and which
\* starts the first upload of the intent otherwise.
RunEffect ==
    /\ effectDue
    /\ effectDue' = FALSE
    /\ IF /\ ~navSettings.isLoading
          /\ navSettings.serverUrl # ""
          /\ shareIntent # NoIntent
       THEN IF ShareBranch(shareIntent) = "none"
            THEN /\ shareIntent' = NoIntent    \* nothing to upload: resetShareIntent()
                 /\ UNCHANGED shareRuns
            ELSE /\ Len(shareRuns) < MaxShareRuns
                 /\ shareRuns' = Append(shareRuns, StartedRun(shareIntent, navSettings))
                 /\ UNCHANGED shareIntent
       ELSE UNCHANGED <<shareIntent, shareRuns>>
    /\ UNCHANGED <<navSettings, coreVars, settingsVars, screenVars, listVars>>

\* The upload run r waits for returns its URL: the run writes the clipboard.
ShareUploadResolves(r) ==
    /\ shareRuns[r].pc = "uploading"
    /\ shareRuns' = [shareRuns EXCEPT ![r].pc = "copying",
                                      ![r].log = Append(@, [ev |-> "ok", i |-> shareRuns[r].i])]
    /\ UNCHANGED <<shareIntent, navSettings, effectDue, coreVars, settingsVars, screenVars,
                   listVars>>

\* The catch block is inside the loop: the run goes on with the next file.
ShareUploadRejectsContinues(r) ==
    /\ shareRuns[r].pc = "uploading"
    /\ LET run == shareRuns[r]
           failed == Append(run.log, [ev |-> "fail", i |-> run.i])
       IN  IF run.i < ShareItems(run.intent)
           THEN shareRuns' =
                   [shareRuns EXCEPT ![r].i = run.i + 1,
                                     ![r].log =
                                         Append(failed,
                                                [ev |-> "start", i |-> run.i + 1,
                                                 call |-> ShareUpload(run.intent, run.i + 1,
                                                                      run.settings)])]
           ELSE shareRuns' = [shareRuns EXCEPT ![r].pc = "done", ![r].log = failed]
    /\ UNCHANGED <<shareIntent, navSettings, effectDue, coreVars, settingsVars, screenVars,
                   listVars>>

\* The upload run r waits for throws: the catch block logs it and the run
\* ends, without resetting the intent.
ShareUploadRejects(r) ==
    /\ shareRuns[r].pc = "uploading"
    /\ shareRuns' = [shareRuns EXCEPT ![r].pc = "done",
                                      ![r].log = Append(@, [ev |-> "fail", i |-> shareRuns[r].i])]
    /\ UNCHANGED <<shareIntent, navSettings, effectDue, coreVars, settingsVars, screenVars,
                   listVars>>

\* Clipboard.setStringAsync resolves: the run uploads the next file, or,
\* after the last upload, calls resetShareIntent().
ShareCopyResolves(r) ==
    /\ shareRuns[r].pc = "copying"
    /\ LET run == shareRuns[r]
       IN  IF run.i < ShareItems(run.intent)
           THEN /\ shareRuns' =
                       [shareRuns EXCEPT ![r].pc = "uploading",
                                         ![r].i = run.i + 1,
                                         ![r].log =
                                             Append(@, [ev |-> "start", i |-> run.i + 1,
                                                        call |-> ShareUpload(run.intent,
                                                                             run.i + 1,
                                                                             run.settings)])]
                /\ UNCHANGED <<shareIntent, effectDue>>
           ELSE /\ shareRuns' = [shareRuns EXCEPT ![r].pc = "done", ![r].reset = TRUE]
                /\ shareIntent' = NoIntent
                /\ effectDue' = (effectDue \/ shareIntent # NoIntent)
    /\ UNCHANGED <<navSettings, coreVars, settingsVars, screenVars, listVars>>

\* Clipboard.setStringAsync throws: the catch block ends the run.
ShareCopyRejects(r) ==
    /\ shareRuns[r].pc = "copying"
    /\ shareRuns' = [shareRuns EXCEPT ![r].pc = "done"]
    /\ UNCHANGED <<shareIntent, navSettings, effectDue, coreVars, settingsVars, screenVars,
                   listVars>>

NextShare ==
    \/ \E intent \in ShareIntents : ReceiveIntent(intent)
    \/ \E st \in NavSettings : SettingsLoaded(st)
    \/ \E st \in NavSettings : SettingsChanged(st)
    \/ RunEffect
    \/ \E r \in DOMAIN shareRuns : ShareUploadResolves(r)
    \/ \E r \in DOMAIN shareRuns : ShareUploadRejects(r)
    \/ \E r \in DOMAIN shareRuns : ShareCopyResolves(r)
    \/ \E r \in DOMAIN shareRuns : ShareCopyRejects(r)

SpecShare == InitShare /\ [][NextShare]_vars

(***************************************************************************)
(* SpecSettings: the SettingsProvider                                      *)
(***************************************************************************)
SettingsKeys == {"serverUrl", "authToken", "deleteToken", "expiry", "isOneShot"}

\* The store as the app finds it: never written to, or holding the values
\* of an earlier session.  An absent key reads as null.
Stores ==
    { [k \in SettingsKeys |-> Null],
      [serverUrl |-> "a.io", authToken |-> "t1", deleteToken |-> "d1", expiry |-> "1h",
       isOneShot |-> "true"] }

\* The arguments the setter of a key is called with.
SetterValues(k) == IF k = "isOneShot" THEN {TRUE} ELSE {"new"}

\* JSON.stringify of a boolean
JsonStringify(b) == IF b THEN "true" ELSE "false"

\* What the setter of key k hands to setItem for value v.
Stored(k, v) == IF k = "isOneShot" THEN JsonStringify(v) ELSE v

\* The field loadSettings makes of what it read under key k.
Loaded(k, item) ==
    IF k = "isOneShot"
    THEN (IF item = Null \/ item = "" THEN FALSE ELSE item = "true")
    ELSE (IF item = Null THEN "" ELSE item)

\* What the store can reject with.
StoreError == Thrown(TRUE, FALSE, "Error", "Could not access the store")

InitSettings ==
    /\ FormatIdle
    /\ SortIdle
    /\ PickIdle
    /\ ApiIdle([c \in Calls |-> NoCall])
    /\ ShareIdle
    /\ ScreenIdle
    /\ ListIdle
    /\ store \in Stores
    /\ settings = defaultSettings
    /\ isLoading = TRUE
    /\ mounted = TRUE
    /\ loadRead = [k \in SettingsKeys |-> NotRead]
    /\ loadPc = "reading"             \* the effect has called loadSettings
    /\ setCalls = <<>>
    /\ written = {}

\* One of the five reads of Promise.all returns what the store holds.
LoadRead(k) ==
    /\ loadPc = "reading"
    /\ loadRead[k] = NotRead
    /\ loadRead' = [loadRead EXCEPT ![k] = store[k]]
    /\ UNCHANGED <<store, settings, isLoading, mounted, loadPc, setCalls, written, coreVars,
                   shareVars, screenVars, listVars>>

\* All five reads have returned: setSettings and, in the finally block,
\* setIsLoading(false), both only while mounted.
LoadCompletes ==
    /\ loadPc = "reading"
    /\ \A k \in SettingsKeys : loadRead[k] # NotRead
    /\ loadPc' = "loaded"
    /\ IF mounted
       THEN /\ settings' = [k \in SettingsKeys |-> Loaded(k, loadRead[k])]
            /\ isLoading' = FALSE
       ELSE UNCHANGED <<settings, isLoading>>
    /\ UNCHANGED <<store, mounted, loadRead, setCalls, written, coreVars, shareVars, screenVars,
                   listVars>>

\* A read rejects: the catch block logs, the finally block ends the loading.
LoadRejects ==
    /\ loadPc = "reading"
    /\ loadPc' = "failed"
    /\ isLoading' = IF mounted THEN FALSE ELSE isLoading
    /\ UNCHANGED <<store, settings, mounted, loadRead, setCalls, written, coreVars,
                   shareVars, screenVars, listVars>>

\* The provider unmounts: both cleanup functions run.
Unmount ==
    /\ mounted
    /\ mounted' = FALSE
    /\ UNCHANGED <<store, settings, isLoading, loadRead, loadPc, setCalls, written, coreVars,
                   shareVars, screenVars, listVars>>

\* setServerUrl, setAuthToken, setDeleteToken, setExpiry or setIsOneShot is
\* called with value v: it hands the value to the store and waits.
SetterCall(k, v) ==
    /\ Len(setCalls) < MaxSetCalls
    /\ setCalls' = Append(setCalls, [key |-> k, value |-> v, pc |-> "writing",
                                     outcome |-> Pending])
    /\ UNCHANGED <<store, settings, isLoading, mounted, loadRead, loadPc, written, coreVars,
                   shareVars, screenVars, listVars>>

\* The memory is updated although the write failed.
WriteRejectsUpdatesMemory(i) ==
    /\ setCalls[i].pc = "writing"
    /\ setCalls' = [setCalls EXCEPT ![i].pc = "done", ![i].outcome = Rejected(StoreError)]
    /\ settings' = IF mounted THEN [settings EXCEPT ![setCalls[i].key] = setCalls[i].value]
                   ELSE settings
    /\ UNCHANGED <<store, isLoading, mounted, loadRead, loadPc, written, coreVars,
                   shareVars, screenVars, listVars>>

\* The write of call i succeeds: the store holds the value and, while
\* mounted, so does the memory.
WriteResolves(i) ==
    /\ setCalls[i].pc = "writing"
    /\ LET k == setCalls[i].key
           v == setCalls[i].value
       IN  /\ store' = [store EXCEPT ![k] = Stored(k, v)]
           /\ written' = written \cup {<<k, v>>}
           /\ settings' = IF mounted THEN [settings EXCEPT ![k] = v] ELSE settings
    /\ setCalls' = [setCalls EXCEPT ![i].pc = "done", ![i].outcome = Resolved(Null)]
    /\ UNCHANGED <<isLoading, mounted, loadRead, loadPc, coreVars, shareVars, screenVars,
                   listVars>>

\* The write of call i fails: the catch block logs the error and rethrows it.
WriteRejects(i) ==
    /\ setCalls[i].pc = "writing"
    /\ setCalls' = [setCalls EXCEPT ![i].pc = "done", ![i].outcome = Rejected(StoreError)]
    /\ UNCHANGED <<store, settings, isLoading, mounted, loadRead, loadPc, written, coreVars,
                   shareVars, screenVars, listVars>>

NextSettings ==
    \/ \E k \in SettingsKeys : LoadRead(k)
    \/ LoadCompletes
    \/ LoadRejects
    \/ Unmount
    \/ \E k \in SettingsKeys : \E v \in SetterValues(k) : SetterCall(k, v)
    \/ \E i \in DOMAIN setCalls : WriteResolves(i)
    \/ \E i \in DOMAIN setCalls : WriteRejects(i)

SpecSettings == InitSettings /\ [][NextSettings]_vars

(***************************************************************************)
(* SpecScreen: handleUpload of the upload screen                           *)
(***************************************************************************)
UploadTypes == {"text", "file", "image", "url", "remote"}

\* What the user types into either input.
Inputs == {"", " ", "hi"}

\* String.prototype.trim on the inputs
Trim(str) == IF str = " " THEN "" ELSE str

\* The input an upload of the type takes, which the invocation keeps as it
\* was when the button was pressed; the pickers take none.
InputOf(type) ==
    CASE type = "text" -> screenText
      [] type \in {"url", "remote"} -> screenUrl
      [] OTHER -> "<picker>"

\* The function of the switch statement and its first argument.
ScreenCall(inv) ==
    CASE inv.type = "text"   -> [fn |-> "uploadText", payload |-> Trim(inv.input)]
      [] inv.type = "file"   -> [fn |-> "pickAndUploadFile", payload |-> ""]
      [] inv.type = "image"  -> [fn |-> "pickAndUploadImage", payload |-> ""]
      [] inv.type = "url"    -> [fn |-> "shortenUrl", payload |-> Trim(inv.input)]
      [] OTHER               -> [fn |-> "uploadFromRemoteUrl", payload |-> Trim(inv.input)]

\* What the awaited function resolves with: a URL, or null from a picker the
\* user cancelled.
ScreenResults(type) ==
    IF type \in {"file", "image"} THEN {"https://p.io/abc", Null} ELSE {"https://p.io/abc"}

InitScreen ==
    /\ FormatIdle
    /\ SortIdle
    /\ PickIdle
    /\ ApiIdle([c \in Calls |-> NoCall])
    /\ ShareIdle
    /\ SettingsIdle
    /\ ListIdle
    /\ screenText = ""
    /\ screenUrl = ""
    /\ isUploading = FALSE
    /\ invocations = <<>>

\* The user changes the text input.
EditText(str) ==
    /\ str # screenText
    /\ screenText' = str
    /\ UNCHANGED <<screenUrl, isUploading, invocations, coreVars, shareVars, settingsVars,
                   listVars>>

\* The user changes the URL input.
EditUrl(str) ==
    /\ str # screenUrl
    /\ screenUrl' = str
    /\ UNCHANGED <<screenText, isUploading, invocations, coreVars, shareVars, settingsVars,
                   listVars>>

\* handleUpload without its first line.
HandleUploadNoGuard(type) ==
    /\ Len(invocations) < MaxInvocations
    /\ isUploading' = TRUE
    /\ invocations' = Append(invocations,
                             [type |-> type, input |-> InputOf(type), pc |-> "permission",
                              set |-> TRUE, call |-> NoCall, path |-> "none"])
    /\ UNCHANGED <<screenText, screenUrl, coreVars, shareVars, settingsVars, listVars>>

\* A button calls handleUpload(type), the callback of the latest render: it
\* returns at once while isUploading, and otherwise sets isUploading and
\* waits for requestNotificationsPermission().
HandleUpload(type) ==
    /\ Len(invocations) < MaxInvocations
    /\ IF isUploading
       THEN /\ invocations' = Append(invocations,
                                     [type |-> type, input |-> InputOf(type),
                                      pc |-> "returned", set |-> FALSE, call |-> NoCall,
                                      path |-> "none"])
            /\ UNCHANGED isUploading
       ELSE /\ isUploading' = TRUE
            /\ invocations' = Append(invocations,
                                     [type |-> type, input |-> InputOf(type),
                                      pc |-> "permission", set |-> TRUE, call |-> NoCall,
                                      path |-> "none"])
    /\ UNCHANGED <<screenText, screenUrl, coreVars, shareVars, settingsVars, listVars>>

\* requestNotificationsPermission() resolves: an empty input ends the
\* invocation with an alert, through the finally block; otherwise the
\* function of the type is called and awaited.
PermissionAsked(h) ==
    /\ invocations[h].pc = "permission"
    /\ IF Trim(invocations[h].input) = ""
       THEN /\ invocations' = [invocations EXCEPT ![h].pc = "done", ![h].path = "invalid"]
            /\ isUploading' = FALSE
       ELSE /\ invocations' = [invocations EXCEPT ![h].pc = "uploading",
                                                  ![h].call = ScreenCall(invocations[h])]
            /\ UNCHANGED isUploading
    /\ UNCHANGED <<screenText, screenUrl, coreVars, shareVars, settingsVars, listVars>>

\* requestNotificationsPermission() rejects: catch and finally.
PermissionFails(h) ==
    /\ invocations[h].pc = "permission"
    /\ invocations' = [invocations EXCEPT ![h].pc = "done", ![h].path = "error"]
    /\ isUploading' = FALSE
    /\ UNCHANGED <<screenText, screenUrl, coreVars, shareVars, settingsVars, listVars>>

\* The awaited function resolves: the input of the type is cleared, then the
\* finally block runs.
ScreenCallResolves(h, result) ==
    /\ invocations[h].pc = "uploading"
    /\ invocations' = [invocations EXCEPT ![h].pc = "done",
                                          ![h].path = IF result = Null THEN "cancelled"
                                                      ELSE "success"]
    /\ screenText' = IF invocations[h].type = "text" THEN "" ELSE screenText
    /\ screenUrl' = IF invocations[h].type \in {"url", "remote"} THEN "" ELSE screenUrl
    /\ isUploading' = FALSE
    /\ UNCHANGED <<coreVars, shareVars, settingsVars, listVars>>

\* The finally block is missing.
ScreenCallRejectsNoFinally(h) ==
    /\ invocations[h].pc = "uploading"
    /\ invocations' = [invocations EXCEPT ![h].pc = "done", ![h].path = "error"]
    /\ UNCHANGED <<screenText, screenUrl, isUploading, coreVars, shareVars, settingsVars,
                   listVars>>

\* The awaited function rejects: the catch block logs, the finally block runs.
ScreenCallRejects(h) ==
    /\ invocations[h].pc = "uploading"
    /\ invocations' = [invocations EXCEPT ![h].pc = "done", ![h].path = "error"]
    /\ isUploading' = FALSE
    /\ UNCHANGED <<screenText, screenUrl, coreVars, shareVars, settingsVars, listVars>>

NextScreen ==
    \/ \E str \in Inputs : EditText(str)
    \/ \E str \in Inputs : EditUrl(str)
    \/ \E type \in UploadTypes : HandleUpload(type)
    \/ \E h \in DOMAIN invocations : PermissionAsked(h)
    \/ \E h \in DOMAIN invocations : PermissionFails(h)
    \/ \E h \in DOMAIN invocations :
          \E result \in ScreenResults(invocations[h].type) : ScreenCallResolves(h, result)
    \/ \E h \in DOMAIN invocations : ScreenCallRejects(h)

SpecScreen == InitScreen /\ [][NextScreen]_vars

(***************************************************************************)
(* SpecList: loadUploads, handleRefresh and handleDelete of the list screen *)
(***************************************************************************)
\* The files on the server when the list screen opens.
Files == {"a.txt", "b.txt"}

\* loadUploads() is called: listUploads is sent and awaited.
LoadUploadsCalled(trigger) ==
    Append(listRequests, [trigger |-> trigger, pc |-> "sent", data |-> {}])

InitList ==
    /\ FormatIdle
    /\ SortIdle
    /\ PickIdle
    /\ ApiIdle([c \in Calls |-> NoCall])
    /\ ShareIdle
    /\ SettingsIdle
    /\ ScreenIdle
    /\ uploadsShown = {}
    /\ listFlags = [isLoading |-> TRUE, isRefreshing |-> FALSE]
    /\ listRequests = <<>>
    /\ serverFiles = Files
    /\ deleting = {}

\* The effect of the screen, the settings being loaded and the server
\* address configured: loadUploads().
ListEffect ==
    /\ listRequests = <<>>
    /\ listRequests' = LoadUploadsCalled("effect")
    /\ UNCHANGED <<uploadsShown, listFlags, serverFiles, deleting, coreVars, shareVars,
                   settingsVars, screenVars>>

\* handleRefresh: setIsRefreshing(true); loadUploads().
HandleRefresh ==
    /\ listRequests # <<>>
    /\ Len(listRequests) < MaxListRequests
    /\ listFlags' = [listFlags EXCEPT !.isRefreshing = TRUE]
    /\ listRequests' = LoadUploadsCalled("refresh")
    /\ UNCHANGED <<uploadsShown, serverFiles, deleting, coreVars, shareVars, settingsVars,
                   screenVars>>

\* handleDelete(fileName) for a file of the list: deleteFile is sent and
\* awaited.
HandleDelete(fileName) ==
    /\ fileName \in uploadsShown
    /\ fileName \notin deleting
    /\ deleting' = deleting \cup {fileName}
    /\ UNCHANGED <<uploadsShown, listFlags, listRequests, serverFiles, coreVars, shareVars,
                   settingsVars, screenVars>>

\* deleteFile resolves, the server having deleted the file: loadUploads().
DeleteResolves(fileName) ==
    /\ fileName \in deleting
    /\ Len(listRequests) < MaxListRequests
    /\ deleting' = deleting \ {fileName}
    /\ serverFiles' = serverFiles \ {fileName}
    /\ listRequests' = LoadUploadsCalled("delete")
    /\ UNCHANGED <<uploadsShown, listFlags, coreVars, shareVars, settingsVars, screenVars>>

\* deleteFile rejects: an alert, and no reload.
DeleteRejects(fileName) ==
    /\ fileName \in deleting
    /\ deleting' = deleting \ {fileName}
    /\ UNCHANGED <<uploadsShown, listFlags, listRequests, serverFiles, coreVars, shareVars,
                   settingsVars, screenVars>>

\* The server answers request i with the files it holds at that moment.
ServerAnswers(i) ==
    /\ listRequests[i].pc = "sent"
    /\ listRequests' = [listRequests EXCEPT ![i].pc = "answered", ![i].data = serverFiles]
    /\ UNCHANGED <<uploadsShown, listFlags, serverFiles, deleting, coreVars, shareVars,
                   settingsVars, screenVars>>

\* listUploads of request i resolves: setUploads(data), then the finally
\* block.
ListResolves(i) ==
    /\ listRequests[i].pc = "answered"
    /\ listRequests' = [listRequests EXCEPT ![i].pc = "shown"]
    /\ uploadsShown' = listRequests[i].data
    /\ listFlags' = [isLoading |-> FALSE, isRefreshing |-> FALSE]
    /\ UNCHANGED <<serverFiles, deleting, coreVars, shareVars, settingsVars, screenVars>>

\* listUploads of request i rejects: an alert, then the finally block.
ListRejects(i) ==
    /\ listRequests[i].pc \in {"sent", "answered"}
    /\ listRequests' = [listRequests EXCEPT ![i].pc = "failed"]
    /\ listFlags' = [isLoading |-> FALSE, isRefreshing |-> FALSE]
    /\ UNCHANGED <<uploadsShown, serverFiles, deleting, coreVars, shareVars, settingsVars,
                   screenVars>>

NextList ==
    \/ ListEffect
    \/ HandleRefresh
    \/ \E fileName \in Files : HandleDelete(fileName)
    \/ \E fileName \in Files : DeleteResolves(fileName)
    \/ \E fileName \in Files : DeleteRejects(fileName)
    \/ \E i \in DOMAIN listRequests : ServerAnswers(i)
    \/ \E i \in DOMAIN listRequests : ListResolves(i)
    \/ \E i \in DOMAIN listRequests : ListRejects(i)

SpecList == InitList /\ [][NextList]_vars

(***************************************************************************)
(* Properties                                                              *)
(***************************************************************************)
Made(c) == args[c] # NoCall

IsUpload(c) == Made(c) /\ args[c].op \in UploadOps

\* The call received a complete response: status, headers and body text.
GotBody(c) == response[c].bodyRead

Is2xx(status) == status \in 200..299

TimedOut == Rejected(ApiError("Request timed out after 10 seconds", NoStatus))

\* C1: the URL of every request any of the six operations sends starts with
\* https://, never with http://, whatever server address was passed.
C1_RequestsAreHttps ==
    \A c \in Calls : \A i \in DOMAIN reqs[c] :
        /\ StartsWith(reqs[c][i].url, "https://")
        /\ ~StartsWith(reqs[c][i].url, "http://")

C1_Witness ==
    \E c \in Calls :
        /\ Made(c) /\ args[c].op = "deleteFile"
        /\ StartsWith(args[c].serverUrl, "http://")
        /\ reqs[c] # <<>>

\* C2: formatUrl replaces a leading http:// by https://, returns an address
\* that begins with https:// as it is, and puts https:// before any other.
C2_FormatUrlCases ==
    fmtOut # NotApplied =>
        /\ StartsWith(fmtIn, "http://") =>
              /\ Len(fmtOut) = Len(fmtIn) + 1
              /\ SubSeq(fmtOut, 1, 8) = "https://"
              /\ \A i \in 8..Len(fmtIn) : CharAt(fmtOut, i + 1) = CharAt(fmtIn, i)
        /\ StartsWith(fmtIn, "https://") => fmtOut = fmtIn
        /\ ~StartsWith(fmtIn, "http://") /\ ~StartsWith(fmtIn, "https://") =>
              fmtOut = "https://" \o fmtIn

C2_Witness ==
    /\ fmtOut # NotApplied
    /\ StartsWith(fmtIn, "http://")
    /\ Len(fmtIn) > 7

\* C3: an upload operation called with an empty server address fails with
\* the configuration error (no status code), sends no request and starts no
\* timer.
C3_EmptyServerUrl ==
    \A c \in Calls :
        IsUpload(c) /\ args[c].serverUrl = "" =>
            /\ reqs[c] = <<>>
            /\ timer[c] = "none"
            /\ pc[c] \in {"idle", "done"}
            /\ pc[c] = "done" =>
                  outcome[c] = Rejected(ApiError("Server URL must be configured", NoStatus))

C3_Witness ==
    \E c \in Calls :
        /\ IsUpload(c) /\ args[c].serverUrl = ""
        /\ pc[c] = "done"

\* C4: an upload operation that received a 2xx response resolves with exactly
\* the text of the response body, the empty text included.
C4_SuccessIsBodyText ==
    \A c \in Calls :
        IsUpload(c) /\ GotBody(c) /\ Is2xx(response[c].status) =>
            /\ pc[c] = "done"
            /\ outcome[c] = Resolved([text |-> response[c].text])

C4_Witness ==
    \E c \in Calls :
        /\ IsUpload(c) /\ GotBody(c)
        /\ response[c].status = 299
        /\ response[c].text = ""
        /\ outcome[c].kind = "resolved"

\* The text each upload function puts before the server's message.
C5_Prefix(op) ==
    CASE op = "shortenUrl"          -> "URL shortening failed: "
      [] op = "uploadFromRemoteUrl" -> "Remote upload failed: "
      [] OTHER                      -> "Upload failed: "

\* C5 as the specification states it: on a non-2xx response with status s and
\* body b an upload operation fails with status s and message b, or the
\* status text where b is empty.
C5_MessageIsBody ==
    \A c \in Calls :
        IsUpload(c) /\ GotBody(c) /\ ~Is2xx(response[c].status) =>
            outcome[c] = Rejected(ApiError(IF response[c].text # "" THEN response[c].text
                                           ELSE response[c].statusText,
                                           response[c].status))

\* C5, amended: the message is the operation's prefix followed by b, or by
\* the status text where b is empty; the status is s.
C5_MessageIsPrefixedBody ==
    \A c \in Calls :
        IsUpload(c) /\ GotBody(c) /\ ~Is2xx(response[c].status) =>
            /\ pc[c] = "done"
            /\ outcome[c] =
                  Rejected(ApiError(C5_Prefix(args[c].op)
                                    \o (IF response[c].text # "" THEN response[c].text
                                        ELSE response[c].statusText),
                                    response[c].status))

C5_Witness ==
    \E c \in Calls :
        /\ IsUpload(c) /\ GotBody(c)
        /\ response[c].status = 500
        /\ response[c].text = "boom"
        /\ outcome[c].kind = "rejected"
        /\ outcome[c].error.message = "Upload failed: boom"

\* C6: listUploads and deleteFile turn a 404 into their own error (the
\* expose_list and the delete_token message) without reading the body; any
\* other non-2xx status gives the generic server error with that status.
C6_NotFoundIsDistinguished ==
    \A c \in Calls :
        Made(c) /\ args[c].op \in {"listUploads", "deleteFile"} =>
            /\ response[c].status = 404 =>
                  /\ pc[c] = "done"
                  /\ ~GotBody(c)
                  /\ outcome[c] =
                        Rejected(ApiError(
                            IF args[c].op = "listUploads"
                            THEN "Make sure expose_list is set to true in your server config"
                            ELSE "Make sure delete_token is set in your server config",
                            404))
            /\ GotBody(c) /\ ~Is2xx(response[c].status) =>
                  /\ response[c].status # 404
                  /\ outcome[c] =
                        Rejected(ApiError(
                            (IF args[c].op = "listUploads" THEN "List request failed: "
                             ELSE "Delete failed: ")
                            \o (IF response[c].text # "" THEN response[c].text
                                ELSE response[c].statusText),
                            response[c].status))

C6_Witness ==
    \E c \in Calls :
        /\ Made(c) /\ args[c].op = "listUploads"
        /\ response[c].status = 404
        /\ outcome[c].kind = "rejected"
        /\ outcome[c].error.statusCode = 404

\* C7: once the timer has fired on a request in flight the request is
\* aborted, the only way on is the rejection with the timeout error, no
\* response is taken in, and no call has both a fired timer and a result.
C7_TimeoutAborts ==
    /\ [](\A c \in Calls : timer[c] = "fired" =>
              signal[c] /\ outcome[c].kind # "resolved")
    /\ [][\A c \in Calls :
              timer[c] = "fired" /\ pc[c] = "fetching" =>
                  /\ response'[c] = response[c]
                  /\ \/ pc'[c] = "fetching" /\ outcome'[c] = Pending
                     \/ pc'[c] = "done" /\ outcome'[c] = TimedOut]_vars

C7_Witness ==
    \E c \in Calls :
        /\ timer[c] = "fired"
        /\ response[c] = NoResponse
        /\ outcome[c] = TimedOut

\* C8: no call is pending once 10 seconds have passed since its request was
\* sent, other than in the instant in which its abort is delivered.
C8_BoundedToTenSeconds ==
    \A c \in Calls :
        elapsed[c] => \/ pc[c] = "done"
                      \/ pc[c] = "fetching" /\ signal[c]

\* C9: no settled call has its timer still armed.
C9_NoArmedTimerLeft ==
    \A c \in Calls : pc[c] = "done" => timer[c] # "armed"

\* C10: listUploads given a 2xx response whose body is not JSON fails with
\* the invalid-response error, without a status code.
C10_InvalidJson ==
    \A c \in Calls :
        /\ Made(c) /\ args[c].op = "listUploads"
        /\ GotBody(c) /\ Is2xx(response[c].status)
        /\ response[c].text \in {"", "boom", "https://p.io/abc", "[1,]"}
        => outcome[c] = Rejected(ApiError("Invalid JSON response from server", NoStatus))

C10_Witness ==
    \E c \in Calls :
        /\ Made(c) /\ args[c].op = "listUploads"
        /\ GotBody(c) /\ response[c].status = 200
        /\ response[c].text = "[1,]"
        /\ outcome[c].kind = "rejected"

\* The catch block of call c caught something that was not an ApiError.
CaughtForeign(c) == caught[c] # NoCatch /\ ~caught[c].isApiError

NetworkUnavailable ==
    Rejected(ApiError("Unable to connect to server. Please check your internet connection.",
                      NoStatus))

IsNetworkFailure(e) ==
    e.isTypeError /\ e.message \in {"Failed to fetch", "Network request failed"}

\* C11 as the specification states it: an abort becomes the timeout error, a
\* network failure the network error, any other exception an error with the
\* exception's message; the caller only ever gets an ApiError.
C11_ClassifiedByKind ==
    \A c \in Calls :
        /\ outcome[c].kind = "rejected" => outcome[c].error.isApiError
        /\ CaughtForeign(c) =>
              outcome[c] =
                 CASE caught[c].name = "AbortError" -> TimedOut
                   [] caught[c].name # "AbortError" /\ IsNetworkFailure(caught[c]) ->
                         NetworkUnavailable
                   [] OTHER -> Rejected(ApiError(caught[c].message, NoStatus))

\* C11, amended: as above for what is an Error; a thrown value that is not an
\* Error becomes the error with the message "Unknown network error".
C11_ClassifiedByKindOfError ==
    \A c \in Calls :
        /\ outcome[c].kind = "rejected" => outcome[c].error.isApiError
        /\ CaughtForeign(c) =>
              outcome[c] =
                 CASE ~caught[c].isError -> Rejected(ApiError("Unknown network error", NoStatus))
                   [] caught[c].isError /\ caught[c].name = "AbortError" -> TimedOut
                   [] caught[c].isError /\ caught[c].name # "AbortError"
                      /\ IsNetworkFailure(caught[c]) -> NetworkUnavailable
                   [] OTHER -> Rejected(ApiError(caught[c].message, NoStatus))

C11_Witness ==
    \E c \in Calls :
        /\ CaughtForeign(c)
        /\ caught[c].message = "Failed to fetch"
        /\ outcome[c] = NetworkUnavailable

\* C12: an ApiError that reaches the catch block is what the caller gets,
\* message and status code unchanged, and handleApiError leaves what it
\* returned as it is.
C12_ApiErrorPassesThrough ==
    \A c \in Calls :
        /\ caught[c].isApiError => outcome[c] = Rejected(caught[c])
        /\ caught[c] # NoCatch =>
              handleApiError(handleApiError(caught[c])) = handleApiError(caught[c])

C12_Witness ==
    \E c \in Calls :
        /\ caught[c].isApiError
        /\ caught[c].statusCode = 500
        /\ outcome[c].kind = "rejected"

\* C13: a call hands at most one request to fetch, and none after the one it
\* sent: not after a non-2xx response, a failure of the transport or a
\* timeout either.
C13_OneRequestPerCall ==
    /\ [](\A c \in Calls : Len(reqs[c]) <= 1)
    /\ [][\A c \in Calls : pc[c] # "idle" => reqs'[c] = reqs[c]]_vars

C13_Witness ==
    \E c \in Calls :
        /\ pc[c] = "done"
        /\ outcome[c] = NetworkUnavailable
        /\ Len(reqs[c]) = 1

\* The state of call d that belongs to it alone.
OwnState(d) == <<args[d], pc[d], reqs[d], signal[d], timer[d], elapsed[d], response[d],
                 outcome[d], caught[d], notes[d]>>

\* C14: with two calls in flight, the step in which the timer of one fires,
\* its request is aborted or it fails changes nothing of the other; a request
\* is only ever aborted by the timer of its own call, and a call only fails
\* with the timeout error after its own timer fired.
C14_CallsAreIndependent ==
    /\ [](\A d \in Calls :
              /\ signal[d] => timer[d] = "fired"
              /\ outcome[d] = TimedOut => timer[d] = "fired")
    /\ [][\A c \in Calls : \A d \in Calls \ {c} :
              OwnState(c)' # OwnState(c) => OwnState(d)' = OwnState(d)]_vars

C14_Witness ==
    \E c \in Calls : \E d \in Calls \ {c} :
        /\ outcome[c] = TimedOut
        /\ pc[d] = "reading"
        /\ ~signal[d]

\* The request has a header of this name.
HasHeader(req, name) == \E h \in req.headers : h[1] = name

\* C15: every request of the upload functions and of listUploads carries
\* Accept: */*, carries Authorization exactly if the auth token is not empty
\* (with the token as its value) and, for the upload functions, expire
\* exactly if an expiry was given (with the expiry as its value); the request
\* is sent whether or not there is a token.
C15_Headers ==
    \A c \in Calls :
        Made(c) /\ args[c].op # "deleteFile" =>
            /\ args[c].serverUrl # "" /\ pc[c] # "idle" => Len(reqs[c]) = 1
            /\ \A i \in DOMAIN reqs[c] :
                  /\ <<"Accept", "*/*">> \in reqs[c][i].headers
                  /\ HasHeader(reqs[c][i], "Authorization") <=> args[c].authToken # ""
                  /\ args[c].authToken # "" =>
                        <<"Authorization", args[c].authToken>> \in reqs[c][i].headers
                  /\ HasHeader(reqs[c][i], "expire") <=>
                        (args[c].op # "listUploads" /\ args[c].expiry # "")
                  /\ args[c].expiry # "" => <<"expire", args[c].expiry>> \in reqs[c][i].headers
                  /\ \A g, h \in reqs[c][i].headers : g[1] = h[1] => g = h

C15_Witness ==
    \E c \in Calls :
        /\ IsUpload(c)
        /\ args[c].authToken = ""
        /\ args[c].expiry = "1h"
        /\ reqs[c] # <<>>

\* The normalized form of each server address the calls are made with.
C16_Normalized(serverUrl) ==
    CASE serverUrl = "a.io"         -> "https://a.io"
      [] serverUrl = "http://a.io"  -> "https://a.io"
      [] serverUrl = "https://a.io" -> "https://a.io"
      [] serverUrl = "HTTP://a.io"  -> "https://HTTP://a.io"
      [] serverUrl = "http:/a.io"   -> "https://http:/a.io"
      [] OTHER                      -> "https://"

\* C16: every request of deleteFile is a DELETE to the normalized server
\* address, a slash and the file name, with the delete token as its
\* Authorization header, the empty token too.
C16_DeleteRequest ==
    \A c \in Calls :
        Made(c) /\ args[c].op = "deleteFile" =>
            \A i \in DOMAIN reqs[c] :
                /\ reqs[c][i].method = "DELETE"
                /\ reqs[c][i].url = C16_Normalized(args[c].serverUrl) \o "/" \o args[c].payload
                /\ <<"Authorization", args[c].authToken>> \in reqs[c][i].headers

C16_Witness ==
    \E c \in Calls :
        /\ Made(c) /\ args[c].op = "deleteFile"
        /\ args[c].authToken = ""
        /\ args[c].serverUrl = "http://a.io"
        /\ reqs[c] # <<>>

\* C17: the body of every upload request has exactly one form part, named
\* oneshot or file by uploadText and uploadFile, oneshot_url or url by
\* shortenUrl, and remote by uploadFromRemoteUrl with or without one-shot.
C17_FormPartName ==
    \A c \in Calls :
        IsUpload(c) =>
            \A i \in DOMAIN reqs[c] :
                /\ Len(reqs[c][i].body) = 1
                /\ reqs[c][i].body[1].name =
                      CASE args[c].op \in {"uploadText", "uploadFile"} /\ args[c].oneshot ->
                              "oneshot"
                        [] args[c].op \in {"uploadText", "uploadFile"} /\ ~args[c].oneshot ->
                              "file"
                        [] args[c].op = "shortenUrl" /\ args[c].oneshot -> "oneshot_url"
                        [] args[c].op = "shortenUrl" /\ ~args[c].oneshot -> "url"
                        [] OTHER -> "remote"

C17_Witness ==
    \E c \in Calls :
        /\ Made(c) /\ args[c].op = "uploadFromRemoteUrl"
        /\ args[c].oneshot
        /\ reqs[c] # <<>>

\* C18: sorted by expiration, in either direction, no record without an
\* expiration comes before a record with one.
C18_NullExpirationLast ==
    sortOut # NotSorted /\ sortArgs.field = "expiration" =>
        \A i, j \in DOMAIN sortOut :
            sortOut[i].expires_at_utc = Null /\ sortOut[j].expires_at_utc # Null => j < i

\* The picker reported that the user cancelled, or returned no asset.
PickedNothing == picked # NoPicked /\ (picked.canceled \/ picked.assets = <<>>)

\* C19: when the picker reports a cancellation or returns no asset, the
\* function has resolved with null, no request was handed to fetch and no
\* notification was dispatched.
C19_CancelIsEmptyResult ==
    PickedNothing =>
        /\ pickPc = "done"
        /\ pickOutcome = Resolved(Null)
        /\ \A c \in Calls : ~Made(c) /\ reqs[c] = <<>> /\ notes[c] = <<>>
        /\ clipboard = ""

C19_Witness ==
    /\ pickArgs # NoPick
    /\ pickArgs.fn = "pickAndUploadImage"
    /\ PickedNothing
    /\ picked.canceled
    /\ pickOutcome = Resolved(Null)

\* What an upload call settles with when every sink succeeds: the error of
\* the missing server address, what handleApiError makes of the caught
\* exception, or the text of the response.
SettledSinkOk(c) ==
    IF ServerUrlMissing(args[c].serverUrl) THEN Rejected(ApiError(ConfigMessage, NoStatus))
    ELSE IF caught[c] # NoCatch THEN Rejected(handleApiError(caught[c]))
    ELSE Resolved([text |-> response[c].text])

\* C20: whatever the clipboard write and the notification scheduling do, an
\* upload call settles as its response or its caught exception determines;
\* what the sink throws never reaches the caller.
C20_SinkFailureNotPropagated ==
    \A c \in Calls :
        IsUpload(c) /\ pc[c] = "done" =>
            /\ outcome[c] = SettledSinkOk(c)
            /\ outcome[c].kind = "rejected" => outcome[c].error.isApiError

\* An upload returned its URL although the sink failed: nothing was scheduled.
C20_Witness ==
    \E c \in Calls :
        /\ IsUpload(c)
        /\ pc[c] = "done"
        /\ outcome[c].kind = "resolved"
        /\ notes[c] = <<>>

\* The notification scheduled for the upload of type type that returned url.
SuccessNote(type, url) ==
    [title |-> type \o " uploaded successfully", body |-> "URL copied to clipboard",
     data |-> url]

\* C21: when an upload call has returned URL u and no sink failed, the
\* clipboard holds u and the success notification for u is scheduled; a call
\* that failed, which notifies errors only, has left the clipboard alone.
C21_SuccessCopiesUrl ==
    \A c \in Calls :
        IsUpload(c) /\ pc[c] = "done" =>
            /\ outcome[c].kind = "resolved" /\ ~sinkFailed[c] =>
                  /\ clipboard = outcome[c].value.text
                  /\ notes[c] = <<SuccessNote(UploadType(args[c].op), outcome[c].value.text)>>
            /\ outcome[c].kind = "rejected" => clipboard = ""

C21_Witness ==
    \E c \in Calls :
        /\ IsUpload(c)
        /\ pc[c] = "done"
        /\ outcome[c] = Resolved([text |-> "https://p.io/abc"])
        /\ ~sinkFailed[c]
        /\ clipboard = "https://p.io/abc"
        /\ Len(notes[c]) = 1

\* The events of a run are those of a loop that waits for each upload: the
\* k-th file is started right after the (k-1)-th was uploaded, and a failure
\* is the last event.
InListOrder(run) ==
    \A k \in DOMAIN run.log :
        IF k % 2 = 1
        THEN /\ run.log[k].ev = "start"
             /\ run.log[k].i = (k + 1) \div 2
             /\ run.log[k].call = ShareUpload(run.intent, (k + 1) \div 2, run.settings)
        ELSE /\ run.log[k].i = k \div 2
             /\ \/ run.log[k].ev = "ok"
                \/ run.log[k].ev = "fail" /\ k = Len(run.log)

\* C22: a run of the share-intent handler uploads the files of its intent
\* one at a time in list order, uploads nothing more after a failed upload,
\* and resets the intent only after every upload succeeded, never after a
\* failure.
C22_FilesOneAtATime ==
    \A r \in DOMAIN shareRuns :
        LET run == shareRuns[r]
        IN  /\ InListOrder(run)
            /\ run.reset =>
                  /\ Len(run.log) = 2 * ShareItems(run.intent)
                  /\ \A k \in DOMAIN run.log : run.log[k].ev # "fail"

\* A run uploaded the first of two files and failed on the second.
C22_Witness ==
    \E r \in DOMAIN shareRuns :
        LET run == shareRuns[r]
        IN  /\ Len(run.intent.files) = 2
            /\ run.pc = "done"
            /\ Len(run.log) = 4
            /\ run.log[4].ev = "fail"
            /\ ~run.reset
            /\ shareIntent = run.intent

\* The uploads started for item i of intent, over all runs.
StartsOf(intent, i) ==
    UNION { { <<r, k>> : k \in { k \in DOMAIN shareRuns[r].log :
                                   /\ shareRuns[r].intent = intent
                                   /\ shareRuns[r].log[k].ev = "start"
                                   /\ shareRuns[r].log[k].i = i } }
            : r \in DOMAIN shareRuns }

\* C24: no item of a share intent is uploaded more than once, however often
\* the effect runs.
C24_IntentUploadedOnce ==
    \A intent \in ShareIntents :
        \A i \in 1..ShareItems(intent) : Cardinality(StartsOf(intent, i)) <= 1

\* The field of key k holds its default, what loadSettings loaded for it, or
\* a value whose write succeeded.
FieldIsBacked(k) ==
    \/ settings[k] = defaultSettings[k]
    \/ loadPc = "loaded" /\ settings[k] = Loaded(k, loadRead[k])
    \/ <<k, settings[k]>> \in written

\* A setter whose write failed rethrows the error of the store and has not
\* touched the memory.
FailedWriteKeepsMemory ==
    \A i \in DOMAIN setCalls :
        (setCalls[i].pc = "writing" /\ setCalls'[i].outcome.kind = "rejected") =>
            /\ settings' = settings
            /\ setCalls'[i].outcome = Rejected(StoreError)

\* C23: every in-memory settings field holds its default, its loaded value
\* or a value whose write to the store succeeded; a setter whose write fails
\* leaves the memory unchanged and rethrows.
C23_MemoryFollowsStore ==
    /\ [](\A k \in SettingsKeys : FieldIsBacked(k))
    /\ [][FailedWriteKeepsMemory]_vars

\* One setter failed and left its field alone, another succeeded and its
\* value is in memory.
C23_Witness ==
    \E i, j \in DOMAIN setCalls :
        /\ setCalls[i].outcome.kind = "rejected"
        /\ setCalls[i].key # setCalls[j].key
        /\ settings[setCalls[i].key] # setCalls[i].value
        /\ setCalls[j].outcome.kind = "resolved"
        /\ settings[setCalls[j].key] = setCalls[j].value
        /\ setCalls[j].value # defaultSettings[setCalls[j].key]
        /\ loadPc = "loaded"
        /\ settings[setCalls[j].key] # Loaded(setCalls[j].key, loadRead[setCalls[j].key])

\* Invocation h of handleUpload has not finished.
Unfinished(h) == invocations[h].pc \in {"permission", "uploading"}

\* handleUpload is invoked in this step.
Invoked == Len(invocations') = Len(invocations) + 1

\* An invocation made while another has not finished returns at once: it
\* calls no upload function and no picker and changes no state.
SecondInvocationReturns ==
    Invoked /\ (\E h \in DOMAIN invocations : Unfinished(h)) =>
        LET new == invocations'[Len(invocations')]
        IN  /\ new.pc = "returned"
            /\ new.call = NoCall
            /\ ~new.set
            /\ <<screenText', screenUrl', isUploading'>>
                  = <<screenText, screenUrl, isUploading>>
            /\ \A h \in DOMAIN invocations : invocations'[h] = invocations[h]

\* C25: at most one invocation of handleUpload is in progress at any time,
\* and an invocation made meanwhile returns without calling an upload
\* function or a picker and without changing text, url or isUploading.
C25_OneUploadAtATime ==
    /\ [](Cardinality({h \in DOMAIN invocations : Unfinished(h)}) <= 1)
    /\ [](\A h \in DOMAIN invocations : invocations[h].pc = "returned" =>
              invocations[h].call = NoCall)
    /\ [][SecondInvocationReturns]_vars

\* A second invocation returned while the first waits for its upload.
C25_Witness ==
    /\ Len(invocations) = 2
    /\ invocations[1].pc = "uploading"
    /\ invocations[1].call.fn = "uploadText"
    /\ invocations[2].pc = "returned"
    /\ isUploading

\* Invocation h finishes in this step.
Finishes(h) == Unfinished(h) /\ invocations'[h].pc = "done"

\* C26: an invocation of handleUpload that set isUploading has set it back
\* to false when it finishes, whichever way it finishes; it clears its input
\* when its upload succeeded and leaves both inputs alone otherwise, and an
\* empty input sends nothing.
C26_IsUploadingReset ==
    [][\A h \in DOMAIN invocations :
          Finishes(h) =>
              /\ invocations[h].set
              /\ isUploading' = FALSE
              /\ invocations'[h].path \in {"success", "invalid", "cancelled", "error"}
              /\ invocations'[h].path = "invalid" => invocations'[h].call = NoCall
              /\ invocations'[h].path # "success" =>
                    screenText' = screenText /\ screenUrl' = screenUrl
              /\ (invocations'[h].path = "success" /\ invocations[h].type = "text") =>
                    screenText' = "" /\ screenUrl' = screenUrl
              /\ (invocations'[h].path = "success"
                  /\ invocations[h].type \in {"url", "remote"}) =>
                    screenUrl' = "" /\ screenText' = screenText
    ]_vars

\* One invocation ended on an empty input, a later one on a failed upload of
\* the text, which is still in the input.
C26_Witness ==
    /\ Len(invocations) = 2
    /\ invocations[1].pc = "done"
    /\ invocations[1].path = "invalid"
    /\ invocations[2].pc = "done"
    /\ invocations[2].path = "error"
    /\ invocations[2].call = [fn |-> "uploadText", payload |-> "hi"]
    /\ screenText = "hi"
    /\ ~isUploading

\* C27: once every listUploads request of the list screen has completed,
\* the list shown is the response to the request made last.
C27_LatestResponseShown ==
    LET last == Len(listRequests)
    IN  (/\ last > 0
         /\ \A i \in DOMAIN listRequests : listRequests[i].pc \in {"shown", "failed"}
         /\ listRequests[last].pc = "shown")
        => uploadsShown = listRequests[last].data

\* C28: an upload call whose sink did not fail has scheduled exactly one
\* notification: the success notification when it returned, one error
\* notification when it threw.
C28_OneNotificationPerCall ==
    \A c \in Calls :
        IsUpload(c) /\ pc[c] = "done" /\ ~sinkFailed[c] =>
            /\ Len(notes[c]) = 1
            /\ outcome[c].kind = "resolved" =>
                  notes[c][1] = SuccessNote(UploadType(args[c].op), outcome[c].value.text)
            /\ outcome[c].kind = "rejected" =>
                  notes[c][1].title = UploadType(args[c].op) \o " upload failed"

\* The call got as far as making its error from a non-2xx response: it read
\* the body, or it needs none for this status.
FromResponse(c) ==
    /\ response[c] # NoResponse
    /\ ~ResponseOk(response[c])
    /\ response[c].bodyRead \/ SettlesOnHeaders(args[c].op, response[c])

\* C29: what a call throws is an ApiError, which has a status code exactly
\* when it was made from a non-2xx response, and then the status of that
\* response.
C29_StatusCodeFromResponse ==
    \A c \in Calls :
        Made(c) /\ pc[c] = "done" /\ outcome[c].kind = "rejected" =>
            /\ outcome[c].error.isApiError
            /\ outcome[c].error.statusCode # NoStatus <=> FromResponse(c)
            /\ FromResponse(c) => outcome[c].error.statusCode = response[c].status

\* An upload threw the error of a 500 response.
C29_Witness ==
    \E c \in Calls :
        /\ IsUpload(c)
        /\ pc[c] = "done"
        /\ outcome[c].kind = "rejected"
        /\ response[c].status = 500
        /\ outcome[c].error.statusCode = 500

\* C30: formatUrl of an address formatUrl returned is that address.
C30_FormatUrlIdempotent ==
    fmtAgain # NotApplied => fmtAgain = fmtOut

\* formatUrl was applied twice to an address it had to change.
C30_Witness ==
    /\ fmtIn = "http://a.io"
    /\ fmtOut = "https://a.io"
    /\ fmtAgain = "https://a.io"

====
